---------------------------- MODULE Spec2Model ----------------------------
(***************************************************************************)
(* Routing server (elir0n/waze): graph store, indexed min-heap, A* engine, *)
(* traffic EMA engine and the dispatcher with its two worker pools.        *)
(*                                                                         *)
(* Numbers.  The C code computes on IEEE doubles.  A double is modelled as *)
(* a pair <<n, d>>: the exact rational n/d in lowest terms (d > 0), or one *)
(* of the two special values NaN (<<0, 0>>) and DBL_MAX (<<1, 0>>), the    *)
(* sentinel the A* engine uses for "not reached".  Rounding error of       *)
(* double arithmetic is not modelled; NaN propagation and the comparisons  *)
(* with NaN (always false) are.                                            *)
(***************************************************************************)
EXTENDS Integers, Naturals, Sequences, FiniteSets, TLC

(***************************************************************************)
(* double arithmetic                                                       *)
(***************************************************************************)
NaN == <<0, 0>>

DBL_MAX == <<1, 0>>

Abs(x) == IF x < 0 THEN -x ELSE x

RECURSIVE GCD(_, _)
GCD(a, b) == IF b = 0 THEN a ELSE GCD(b, a % b)

\* the double n/d (d # 0), in lowest terms
Rat(n, d) ==
    LET s == IF d < 0 THEN -1 ELSE 1
        k == GCD(Abs(n), Abs(d))
    IN  <<(s * n) \div k, (s * d) \div k>>

DInt(n) == <<n, 1>>

IsNaN(a) == a = NaN

IsFinite(a) == a[2] # 0

\* a + b
DAdd(a, b) ==
    IF IsNaN(a) \/ IsNaN(b) THEN NaN
    ELSE IF a = DBL_MAX \/ b = DBL_MAX THEN DBL_MAX
    ELSE LET l == (a[2] \div GCD(a[2], b[2])) * b[2]
         IN  Rat(a[1] * (l \div a[2]) + b[1] * (l \div b[2]), l)

\* a - b
DSub(a, b) ==
    IF IsNaN(a) \/ IsNaN(b) THEN NaN
    ELSE IF a = DBL_MAX \/ b = DBL_MAX THEN DBL_MAX
    ELSE LET l == (a[2] \div GCD(a[2], b[2])) * b[2]
         IN  Rat(a[1] * (l \div a[2]) - b[1] * (l \div b[2]), l)

\* a * b
DMul(a, b) ==
    IF IsNaN(a) \/ IsNaN(b) THEN NaN
    ELSE IF a = DBL_MAX \/ b = DBL_MAX THEN DBL_MAX
    ELSE LET k1 == GCD(Abs(a[1]), b[2])
             k2 == GCD(Abs(b[1]), a[2])
         IN  Rat((a[1] \div k1) * (b[1] \div k2), (a[2] \div k2) * (b[2] \div k1))

\* a / b; every divisor in the program is non-zero when it is not NaN
DDiv(a, b) ==
    IF IsNaN(a) \/ IsNaN(b) \/ b[1] = 0 THEN NaN
    ELSE IF a = DBL_MAX THEN DBL_MAX
    ELSE IF b = DBL_MAX THEN DInt(0)
    ELSE LET k1 == GCD(Abs(a[1]), Abs(b[1]))
             k2 == GCD(b[2], a[2])
         IN  Rat((a[1] \div k1) * (b[2] \div k2), (a[2] \div k2) * (b[1] \div k1))

\* a < b: false when either side is NaN
DLt(a, b) ==
    IF IsNaN(a) \/ IsNaN(b) THEN FALSE
    ELSE IF a = DBL_MAX THEN FALSE
    ELSE IF b = DBL_MAX THEN TRUE
    ELSE a[1] * b[2] < b[1] * a[2]

\* a <= b: false when either side is NaN
DLe(a, b) ==
    IF IsNaN(a) \/ IsNaN(b) THEN FALSE
    ELSE a = b \/ DLt(a, b)

\* a > b: false when either side is NaN
DGt(a, b) == DLt(b, a)

\* a == b: false when either side is NaN
DEq(a, b) == ~IsNaN(a) /\ ~IsNaN(b) /\ a = b

\* the largest r with r * r <= n
RECURSIVE ISqrtFrom(_, _)
ISqrtFrom(n, r) == IF (r + 1) * (r + 1) > n THEN r ELSE ISqrtFrom(n, r + 1)

\* sqrt(a) of a non-negative double; exact on the squares of rationals,
\* which is what the node coordinates of the model produce
DSqrt(a) ==
    IF IsNaN(a) THEN NaN
    ELSE IF a = DBL_MAX THEN DBL_MAX
    ELSE Rat(ISqrtFrom(a[1], 0), ISqrtFrom(a[2], 0))

\* printf("%.3f") of a cost: <<units, thousandths>>, rounded to the nearest
\* thousandth; <<-1, -1>> stands for the text of a value that is no number
Fmt3(a) ==
    IF ~IsFinite(a) THEN <<-1, -1>>
    ELSE LET q == a[1] \div a[2]
             r == a[1] % a[2]
             m == (2 * r * 1000 + a[2]) \div (2 * a[2])
         IN  IF m >= 1000 THEN <<q + 1, 0>> ELSE <<q, m>>

(***************************************************************************)
(* graph store (graph.c).  A Graph is a record                             *)
(*   [num_nodes, num_edges, nodes, edges]                                  *)
(* nodes: [0..num_nodes-1 -> [x, y, out_edges]], out_edges the linked list *)
(* of edge ids, head first; edges: [0..num_edges-1 -> Edge].               *)
(***************************************************************************)
\* a slot of the malloc'ed edge table that graph_add_edge has not filled
EdgeSlotUnset ==
    [edge_id |-> -1, from_node |-> -1, to_node |-> -1,
     base_length |-> NaN, base_speed_limit |-> NaN,
     current_travel_time |-> NaN, ema_travel_time |-> NaN,
     observation_count |-> 0]

graph_init(num_nodes, num_edges) ==
    [num_nodes |-> num_nodes,
     num_edges |-> num_edges,
     nodes |-> [i \in 0..(num_nodes - 1) |->
                  [x |-> DInt(0), y |-> DInt(0), out_edges |-> <<>>]],
     edges |-> [i \in 0..(num_edges - 1) |-> EdgeSlotUnset]]

graph_set_node_coordinates(G, node_id, x, y) ==
    [G EXCEPT !.nodes[node_id].x = x, !.nodes[node_id].y = y]

\* the calls that do not exit(1)
graph_add_edge_ok(G, edge_id, from, to, speed_limit) ==
    /\ edge_id >= 0 /\ edge_id < G.num_edges
    /\ from >= 0 /\ from < G.num_nodes
    /\ to >= 0 /\ to < G.num_nodes
    /\ ~DLe(speed_limit, DInt(0))

graph_add_edge(G, edge_id, from, to, length, speed_limit) ==
    LET t0 == DDiv(length, speed_limit)
        e  == [edge_id |-> edge_id, from_node |-> from, to_node |-> to,
               base_length |-> length, base_speed_limit |-> speed_limit,
               current_travel_time |-> t0, ema_travel_time |-> t0,
               observation_count |-> 0]
    IN  [G EXCEPT !.edges[edge_id] = e,
                  !.nodes[from].out_edges = <<edge_id>> \o @]

get_edge_weight(G, edge_id) == G.edges[edge_id].current_travel_time

RECURSIVE MaxSpeedLoop(_, _, _)
MaxSpeedLoop(G, i, max_speed) ==
    IF i >= G.num_edges THEN max_speed
    ELSE MaxSpeedLoop(G, i + 1,
            IF DGt(G.edges[i].base_speed_limit, max_speed)
            THEN G.edges[i].base_speed_limit ELSE max_speed)

heuristic(G, from_node, to_node) ==
    LET dx == DSub(G.nodes[from_node].x, G.nodes[to_node].x)
        dy == DSub(G.nodes[from_node].y, G.nodes[to_node].y)
        straight_dist == DSqrt(DAdd(DMul(dx, dx), DMul(dy, dy)))
        max_speed == MaxSpeedLoop(G, 0, DInt(0))
    IN  IF DGt(max_speed, DInt(0)) THEN DDiv(straight_dist, max_speed)
        ELSE straight_dist

(***************************************************************************)
(* indexed min-heap (min_heap.c).  A MinHeap is a record                   *)
(*   [capacity, size, pos, array]                                          *)
(* pos: [node id -> index], array: [index -> [node_id, dist]].             *)
(***************************************************************************)
newMinHeapNode(node_id, dist) == [node_id |-> node_id, dist |-> dist]

RECURSIVE minHeapify(_, _)
minHeapify(minHeap, idx) ==
    LET left  == 2 * idx + 1
        right == 2 * idx + 2
        s1 == IF left < minHeap.size
                 /\ DLt(minHeap.array[left].dist, minHeap.array[idx].dist)
              THEN left ELSE idx
        smallest == IF right < minHeap.size
                       /\ DLt(minHeap.array[right].dist, minHeap.array[s1].dist)
                    THEN right ELSE s1
    IN  IF smallest # idx
        THEN LET smallestNode == minHeap.array[smallest]
                 idxNode == minHeap.array[idx]
                 p1 == [minHeap.pos EXCEPT ![smallestNode.node_id] = idx]
                 p2 == [p1 EXCEPT ![idxNode.node_id] = smallest]
                 a2 == [minHeap.array EXCEPT ![smallest] = idxNode,
                                             ![idx] = smallestNode]
             IN  minHeapify([minHeap EXCEPT !.pos = p2, !.array = a2], smallest)
        ELSE minHeap

isEmpty(minHeap) == minHeap.size = 0

\* a slip that moves the last node to the root and leaves it there
extractMinNoHeapify(minHeap) ==
    LET root == minHeap.array[0]
        lastNode == minHeap.array[minHeap.size - 1]
        a1 == [minHeap.array EXCEPT ![0] = lastNode]
        p1 == [minHeap.pos EXCEPT ![root.node_id] = minHeap.size - 1]
        p2 == [p1 EXCEPT ![lastNode.node_id] = 0]
    IN  [root |-> root,
         heap |-> [minHeap EXCEPT !.array = a1, !.pos = p2, !.size = @ - 1]]

\* the extracted root and the heap after the extraction (heap not empty)
extractMin(minHeap) ==
    LET root == minHeap.array[0]
        lastNode == minHeap.array[minHeap.size - 1]
        a1 == [minHeap.array EXCEPT ![0] = lastNode]
        p1 == [minHeap.pos EXCEPT ![root.node_id] = minHeap.size - 1]
        p2 == [p1 EXCEPT ![lastNode.node_id] = 0]
        h1 == [minHeap EXCEPT !.array = a1, !.pos = p2, !.size = @ - 1]
    IN  [root |-> root, heap |-> minHeapify(h1, 0)]

RECURSIVE SiftUp(_, _)
SiftUp(minHeap, i) ==
    LET par == (i - 1) \div 2 IN
    IF i # 0 /\ DLt(minHeap.array[i].dist, minHeap.array[par].dist)
    THEN LET p1 == [minHeap.pos EXCEPT ![minHeap.array[i].node_id] = par]
             p2 == [p1 EXCEPT ![minHeap.array[par].node_id] = i]
             a2 == [minHeap.array EXCEPT ![i] = minHeap.array[par],
                                         ![par] = minHeap.array[i]]
         IN  SiftUp([minHeap EXCEPT !.pos = p2, !.array = a2], par)
    ELSE minHeap

\* a slip that writes the key and leaves the node where it is
decreaseKeyNoSift(minHeap, node_id, dist) ==
    [minHeap EXCEPT !.array[minHeap.pos[node_id]].dist = dist]

decreaseKey(minHeap, node_id, dist) ==
    LET i == minHeap.pos[node_id]
        h1 == [minHeap EXCEPT !.array[i].dist = dist]
    IN  SiftUp(h1, i)

isInMinHeap(minHeap, node_id) == minHeap.pos[node_id] < minHeap.size

(***************************************************************************)
(* A* engine (routing.c).  The search state is a record                    *)
(*   [g_score, f_score, parent, minHeap, found]                            *)
(***************************************************************************)
\* first edge of the adjacency list cur that leads to the node to, or -1
RECURSIVE FindEdgeLoop(_, _, _)
FindEdgeLoop(G, cur, to) ==
    IF cur = <<>> THEN -1
    ELSE LET eid == Head(cur) IN
         IF eid >= 0 /\ eid < G.num_edges /\ G.edges[eid].to_node = to
         THEN eid
         ELSE FindEdgeLoop(G, Tail(cur), to)

\* a slip that takes the head of the adjacency list whatever its target
find_edge_id_head(G, from, to) ==
    IF G.nodes[from].out_edges = <<>> THEN -1 ELSE Head(G.nodes[from].out_edges)

find_edge_id(G, from, to) == FindEdgeLoop(G, G.nodes[from].out_edges, to)

\* a slip that leaves the start node at DBL_MAX like every other node
AStarInitUnseeded(G, start_id, target_id) ==
    LET V == G.num_nodes IN
    [g_score |-> [i \in 0..(V - 1) |-> DBL_MAX],
     f_score |-> [i \in 0..(V - 1) |-> DBL_MAX],
     parent  |-> [i \in 0..(V - 1) |-> -1],
     minHeap |-> [capacity |-> V, size |-> V,
                  pos |-> [i \in 0..(V - 1) |-> i],
                  array |-> [i \in 0..(V - 1) |-> newMinHeapNode(i, DBL_MAX)]],
     found   |-> FALSE]

\* lines 303-315: every node in the heap with key DBL_MAX, then the start
AStarInit(G, start_id, target_id) ==
    LET V == G.num_nodes
        h0 == [capacity |-> V, size |-> V,
               pos |-> [i \in 0..(V - 1) |-> i],
               array |-> [i \in 0..(V - 1) |-> newMinHeapNode(i, DBL_MAX)]]
        f0 == heuristic(G, start_id, target_id)
    IN  [g_score |-> [[i \in 0..(V - 1) |-> DBL_MAX] EXCEPT ![start_id] = DInt(0)],
         f_score |-> [[i \in 0..(V - 1) |-> DBL_MAX] EXCEPT ![start_id] = f0],
         parent  |-> [i \in 0..(V - 1) |-> -1],
         minHeap |-> decreaseKey(h0, start_id, f0),
         found   |-> FALSE]

\* a slip that records the relaxed node as its own parent
RelaxEdgeSelfParent(G, target_id, u, v, w, st) ==
    IF st.g_score[u] # DBL_MAX
    THEN LET tentative_g == DAdd(st.g_score[u], w) IN
         IF DLt(tentative_g, st.g_score[v])
         THEN LET f == DAdd(tentative_g, heuristic(G, v, target_id)) IN
              [st EXCEPT !.g_score[v] = tentative_g,
                         !.f_score[v] = f,
                         !.parent[v] = v,
                         !.minHeap = IF isInMinHeap(st.minHeap, v)
                                     THEN decreaseKey(st.minHeap, v, f)
                                     ELSE st.minHeap]
         ELSE st
    ELSE st

\* lines 351-364: the relaxation of one edge u -> v of weight w
RelaxEdge(G, target_id, u, v, w, st) ==
    IF st.g_score[u] # DBL_MAX
    THEN LET tentative_g == DAdd(st.g_score[u], w) IN
         IF DLt(tentative_g, st.g_score[v])
         THEN LET f == DAdd(tentative_g, heuristic(G, v, target_id)) IN
              [st EXCEPT !.g_score[v] = tentative_g,
                         !.f_score[v] = f,
                         !.parent[v] = u,
                         !.minHeap = IF isInMinHeap(st.minHeap, v)
                                     THEN decreaseKey(st.minHeap, v, f)
                                     ELSE st.minHeap]
         ELSE st
    ELSE st

\* lines 334-367: the walk over the adjacency list of u
RECURSIVE RelaxLoop(_, _, _, _, _)
RelaxLoop(G, target_id, u, curr, st) ==
    IF curr = <<>> THEN st
    ELSE LET edge_id == Head(curr) IN
         IF edge_id < 0 \/ edge_id >= G.num_edges
         THEN RelaxLoop(G, target_id, u, Tail(curr), st)
         ELSE LET v == G.edges[edge_id].to_node
                  w == get_edge_weight(G, edge_id)
              IN  IF v < 0 \/ v >= G.num_nodes
                  THEN RelaxLoop(G, target_id, u, Tail(curr), st)
                  ELSE RelaxLoop(G, target_id, u, Tail(curr),
                                 RelaxEdge(G, target_id, u, v, w, st))

\* lines 319-368: the main loop
RECURSIVE AStarLoop(_, _, _)
AStarLoop(G, target_id, st) ==
    IF isEmpty(st.minHeap) THEN st
    ELSE LET ex  == extractMin(st.minHeap)
             u   == ex.root.node_id
             u_f == ex.root.dist
             st1 == [st EXCEPT !.minHeap = ex.heap]
         IN  IF u_f = DBL_MAX THEN st1
             ELSE IF u = target_id THEN [st1 EXCEPT !.found = TRUE]
             ELSE AStarLoop(G, target_id,
                     RelaxLoop(G, target_id, u, G.nodes[u].out_edges, st1))

\* lines 384-387: the parent chain from v, target first.  node_path has V
\* slots: a chain longer than V writes past the buffer (undefined
\* behaviour), reported here as <<-2>>.
RECURSIVE ParentWalk(_, _, _, _)
ParentWalk(parent, v, node_path, V) ==
    IF v = -1 THEN node_path
    ELSE IF Len(node_path) >= V THEN <<-2>>
    ELSE ParentWalk(parent, parent[v], Append(node_path, v), V)

\* lines 390-394
Reverse(s) == [i \in 1..Len(s) |-> s[Len(s) + 1 - i]]

\* lines 411-431: the edge ids of the node path; rc 15 when an edge is
\* missing, 16 when out_edges is full
RECURSIVE EdgeLoop(_, _, _, _, _)
EdgeLoop(G, node_path, i, max_edges, out_edges) ==
    IF i >= Len(node_path) THEN [rc |-> 0, edges |-> out_edges]
    ELSE LET eid == find_edge_id(G, node_path[i], node_path[i + 1]) IN
         IF eid < 0 THEN [rc |-> 15, edges |-> out_edges]
         ELSE IF Len(out_edges) >= max_edges THEN [rc |-> 16, edges |-> out_edges]
         ELSE EdgeLoop(G, node_path, i + 1, max_edges, Append(out_edges, eid))

\* rc, and on rc = 0 the cost, the edge path and the node path
RouteResult(rc, cost, edges, nodes) ==
    [rc |-> rc, cost |-> cost, edges |-> edges, nodes |-> nodes]

find_route_a_star_path(G, start_id, target_id, max_edges, max_nodes) ==
    IF start_id < 0 \/ start_id >= G.num_nodes
       \/ target_id < 0 \/ target_id >= G.num_nodes
    THEN RouteResult(11, DInt(0), <<>>, <<>>)
    ELSE LET st == AStarLoop(G, target_id, AStarInit(G, start_id, target_id)) IN
         IF ~st.found THEN RouteResult(1, DInt(0), <<>>, <<>>)
         ELSE LET walk == ParentWalk(st.parent, target_id, <<>>, G.num_nodes)
                  node_path == Reverse(walk)
              IN  IF walk = <<-2>> THEN RouteResult(-2, DInt(0), <<>>, <<>>)
                  ELSE IF Len(node_path) > max_nodes
                  THEN RouteResult(17, DInt(0), <<>>, <<>>)
                  ELSE LET el == EdgeLoop(G, node_path, 1, max_edges, <<>>) IN
                       IF el.rc # 0
                       THEN RouteResult(el.rc, DInt(0), <<>>, node_path)
                       ELSE RouteResult(0, st.g_score[target_id],
                                        el.edges, node_path)

(***************************************************************************)
(* protocol execution (server.c).  A reply line is a record                *)
(*   [kind, reason, cost, nodes, edges]                                    *)
(* kind "ROUTE2" (cost as "%.3f" prints it: units, thousandths), "ACK" or *)
(* "ERR" with its reason.  malloc and strdup are taken to succeed.         *)
(***************************************************************************)
Err(reason) ==
    [kind |-> "ERR", reason |-> reason, cost |-> <<0, 0>>, nodes |-> <<>>, edges |-> <<>>]

Ack == [kind |-> "ACK", reason |-> "", cost |-> <<0, 0>>, nodes |-> <<>>, edges |-> <<>>]

Route2(cost, nodes, edges) ==
    [kind |-> "ROUTE2", reason |-> "", cost |-> Fmt3(cost),
     nodes |-> nodes, edges |-> edges]

\* lines 194-245: the reply for the result r of find_route_a_star_path
RouteReply(G, r) ==
    LET max_edges == IF G.num_nodes > 0 THEN G.num_nodes ELSE 1 IN
    IF r.rc = 1 THEN Err("NO_ROUTE")
    ELSE IF r.rc # 0 THEN Err("ROUTE_FAIL")
    ELSE IF Len(r.edges) > max_edges \/ Len(r.nodes) > G.num_nodes
    THEN Err("ROUTE_FAIL")
    ELSE Route2(r.cost, r.nodes, r.edges)

\* lines 172-192: the call of the engine
RouteCall(G, src, dst) ==
    find_route_a_star_path(G, src, dst,
                           IF G.num_nodes > 0 THEN G.num_nodes ELSE 1,
                           G.num_nodes)

build_route_response(G, src, dst) ==
    IF src < 0 \/ src >= G.num_nodes \/ dst < 0 \/ dst >= G.num_nodes
    THEN Err("BAD_NODES")
    ELSE RouteReply(G, RouteCall(G, src, dst))

(***************************************************************************)
(* traffic EMA engine: apply_update (server.c), as a whole and as the      *)
(* three writes it makes under the write lock.                             *)
(***************************************************************************)
\* lines 256-257: const double min_speed = 1e-6
min_speed == <<1, 1000000>>

ClampSpeed(speed) == IF DLt(speed, min_speed) THEN min_speed ELSE speed

\* a slip that tests the edge id alone
UpdateCheckEdgeOnly(G, edge_id, speed) ==
    IF edge_id < 0 \/ edge_id >= G.num_edges THEN "BAD_EDGE" ELSE "OK"

\* lines 249-254: the reply of a rejected update, or "OK"
UpdateCheck(G, edge_id, speed) ==
    IF edge_id < 0 \/ edge_id >= G.num_edges THEN "BAD_EDGE"
    ELSE IF DLe(speed, DInt(0)) THEN "BAD_SPEED"
    ELSE "OK"

\* a slip that forgets the first-observation case
AlphaAlwaysSmoothing(e) == <<1, 5>>

\* line 260
Alpha(e) == IF e.observation_count = 0 THEN DInt(1) ELSE <<1, 5>>

\* lines 259-263: e->ema_travel_time = alpha*measured + (1-alpha)*ema
WriteEma(G, edge_id, speed) ==
    LET e == G.edges[edge_id]
        alpha == Alpha(e)
        measured == DDiv(e.base_length, ClampSpeed(speed))
    IN  [G EXCEPT !.edges[edge_id].ema_travel_time =
            DAdd(DMul(alpha, measured),
                 DMul(DSub(DInt(1), alpha), e.ema_travel_time))]

\* line 264: e->current_travel_time = e->ema_travel_time
WriteCurrent(G, edge_id) ==
    [G EXCEPT !.edges[edge_id].current_travel_time =
                  G.edges[edge_id].ema_travel_time]

\* a slip that counts the observation on every edge
WriteCountAll(G, edge_id) ==
    [G EXCEPT !.edges = [f \in DOMAIN @ |->
                            [@[f] EXCEPT !.observation_count = @ + 1]]]

\* line 265: e->observation_count++
WriteCount(G, edge_id) ==
    [G EXCEPT !.edges[edge_id].observation_count = @ + 1]

\* the graph after the call and the reply
apply_update(G, edge_id, speed) ==
    LET chk == UpdateCheck(G, edge_id, speed) IN
    IF chk # "OK" THEN [g |-> G, resp |-> Err(chk)]
    ELSE [g |-> WriteCount(WriteCurrent(WriteEma(G, edge_id, speed), edge_id),
                           edge_id),
          resp |-> Ack]

(***************************************************************************)
(* state                                                                   *)
(***************************************************************************)
VARIABLES
    g,              \* the Graph (main.c: Graph* g)
    phase,          \* "load" while graph_load_from_files runs, then "serve"
    loaded_edges,   \* graph_load_from_files: int loaded_edges
    obs,            \* history: per edge, the speeds of its accepted updates
    last,           \* history: the last call made on the engines and its result
    tasks,          \* the Task objects created and not yet destroyed, by id
    routing_q,      \* ServerState.routing_q: [items, waiters]
    traffic_q,      \* ServerState.traffic_q: [items, waiters]
    graph_lock,     \* ServerState.graph_lock: [readers, writer]
    client,         \* per connection, its handler thread: [pc, t, resp]
    rworker,        \* per routing worker: [pc, t, resp]
    tworker,        \* per traffic worker: [pc, t, resp]
    sent,           \* history: per connection, the lines recv_line returned
    out,            \* per connection, the lines send_all wrote
    snap,           \* history: per routing worker, the graph when it took the lock
    applied,        \* history: the tasks apply_update has been called for
    seen,           \* history: per REQ task, the updates applied before its search
    heap,           \* the MinHeap of a search in progress (routing.c: minHeap)
    extracted       \* history: the nodes extractMin has returned, in order

graphVars == <<g, phase, loaded_edges, obs, last>>

srvVars == <<tasks, routing_q, traffic_q, graph_lock, client, rworker, tworker,
             sent, out, snap, applied, seen>>

heapVars == <<heap, extracted>>

vars == <<g, phase, loaded_edges, obs, last, tasks, routing_q, traffic_q,
          graph_lock, client, rworker, tworker, sent, out, snap, applied,
          seen, heap, extracted>>

(***************************************************************************)
(* dispatcher (server.c): tasks, queues, the graph lock                    *)
(***************************************************************************)
\* connections accepted by server_run
NumClients == 2

\* lines a connection sends before it closes
MaxLines == 2

MaxTotalLines == 3

\* server.c:20 has 8 routing workers (a -D build option)
ROUTE_WORKERS == 2

TRAFFIC_WORKERS == 2

Clients == 1..NumClients

RWorkers == 1..ROUTE_WORKERS

TWorkers == 1..TRAFFIC_WORKERS

TASK_REQ == 1

TASK_UPD == 2

\* no call made on the engines yet
NoCall == [op |-> "none"]

\* char* response = NULL
NULL == [kind |-> "NULL", reason |-> "", cost |-> <<0, 0>>, nodes |-> <<>>, edges |-> <<>>]

\* Task* t = NULL
NoTask == <<0, 0>>

\* pthread_rwlock_t with nobody inside
NoWriter == 0

\* what a thread reads through a pointer to a Task that was freed
FreedTask ==
    [type |-> 0, client_fd |-> 0, src |-> -1, dst |-> -1, edge_id |-> -1,
     speed |-> DInt(0), response |-> NULL, done |-> FALSE]

TaskOf(T, t) == IF t \in DOMAIN T THEN T[t] ELSE FreedTask

\* lines 149-160: calloc'ed, response NULL, done 0
task_create(client_fd) ==
    [type |-> 0, client_fd |-> client_fd, src |-> 0, dst |-> 0, edge_id |-> 0,
     speed |-> DInt(0), response |-> NULL, done |-> FALSE]

\* a slip that leaks the task
task_destroy_leak(T, t) == T

\* lines 162-168
task_destroy(T, t) == [id \in (DOMAIN T) \ {t} |-> T[id]]

\* a slip that links t at the head of the list
queue_push_front(q, t) == [q EXCEPT !.items = <<t>> \o @]

\* lines 114-125, the list: t goes to the tail
queue_push(q, t) == [q EXCEPT !.items = Append(@, t)]

\* lines 132-136, the list: the head leaves
queue_pop(q) == [q EXCEPT !.items = Tail(@)]

\* a slip that sets the flag and leaves the response unset
task_complete_noresp(T, t, resp) ==
    IF t \in DOMAIN T THEN [T EXCEPT ![t].done = TRUE] ELSE T

\* lines 141-147, the task: response and done are set under t->mu
task_complete(T, t, resp) ==
    IF t \in DOMAIN T
    THEN [T EXCEPT ![t].response = resp, ![t].done = TRUE]
    ELSE T

\* a slip that does not test the flag
TaskDoneAlways(T, t) == TRUE

\* line 378: while (!t->done)
TaskDone(T, t) == TaskOf(T, t).done

\* a lock that lets a reader in beside a writer
CanReadLockAlways(lock) == TRUE

\* pthread_rwlock_rdlock returns when no writer is inside
CanReadLock(lock) == lock.writer = NoWriter

\* a lock that lets a writer in beside readers
CanWriteLockNoReaders(lock) == lock.writer = NoWriter

\* a lock that lets every writer in
CanWriteLockAlways(lock) == TRUE

\* pthread_rwlock_wrlock returns when nobody is inside
CanWriteLock(lock) == lock.writer = NoWriter /\ lock.readers = {}

\* a worker that goes on without unlocking
ReadUnlockForgotten(lock, w) == lock

\* line 293: pthread_rwlock_unlock by a reader
ReadUnlock(lock, w) == [lock EXCEPT !.readers = @ \ {w}]

\* line 309: pthread_rwlock_unlock by the writer
WriteUnlock(lock, w) == [lock EXCEPT !.writer = NoWriter]

(***************************************************************************)
(* A line is the sequence of its blank-separated fields, each a word, an   *)
(* integer ("2") or a number written with a point ("2.5").  sscanf stops   *)
(* after the fields it converts: "%d" reads the digits of a number up to   *)
(* its point, and the next conversion goes on from the point.              *)
(***************************************************************************)
Word(w) == [k |-> "word", v |-> w, n |-> DInt(0)]

IntField(i) == [k |-> "int", v |-> "", n |-> DInt(i)]

NumField(x) == [k |-> "num", v |-> "", n |-> x]

\* what "%d" reads of a number: its digits before the point
IntPart(x) == IF x[1] >= 0 THEN x[1] \div x[2] ELSE -((-x[1]) \div x[2])

\* what "%lf" reads after that: the point and the digits behind it
FracPart(x) == Rat(Abs(x[1]) % x[2], x[2])

\* sscanf(line, "REQ %d %d", ...) == 2
ScanReq(line) ==
    /\ Len(line) >= 3
    /\ line[1] = Word("REQ")
    /\ line[2].k = "int"
    /\ line[3].k \in {"int", "num"}
    /\ IsFinite(line[3].n)

\* sscanf(line, "UPD %d %lf", ...) == 2, both fields there
ScanUpd(line) ==
    /\ Len(line) >= 3
    /\ line[1] = Word("UPD")
    /\ line[2].k = "int"
    /\ line[3].k \in {"int", "num"}

\* sscanf(line, "UPD %d %lf", ...) == 2, both read from one number
ScanUpdSplit(line) ==
    /\ Len(line) >= 2
    /\ line[1] = Word("UPD")
    /\ line[2].k = "num"
    /\ IsFinite(line[2].n)

\* lines 340-374: trim_crlf, the empty test and the two sscanf calls
ParseLine(line) ==
    IF line = <<>> THEN [op |-> "EMPTY", a |-> 0, b |-> 0, x |-> DInt(0)]
    ELSE IF ScanReq(line)
         THEN [op |-> "REQ", a |-> line[2].n[1], b |-> IntPart(line[3].n),
               x |-> DInt(0)]
    ELSE IF ScanUpd(line)
         THEN [op |-> "UPD", a |-> line[2].n[1], b |-> 0, x |-> line[3].n]
    ELSE IF ScanUpdSplit(line)
         THEN [op |-> "UPD", a |-> IntPart(line[2].n), b |-> 0,
               x |-> FracPart(line[2].n)]
    ELSE [op |-> "UNKNOWN", a |-> 0, b |-> 0, x |-> DInt(0)]

\* a slip that ends the handler after an ERR reply
NextPcBreakOnErr(reply) == IF reply.kind = "ERR" THEN "closed" ELSE "recv"

\* lines 343, 373, 391: after a reply of any kind the loop reads again
NextPc(reply) == "recv"

\* lines 384-388
ReplyOf(resp) == IF resp # NULL THEN resp ELSE Err("INTERNAL")

(***************************************************************************)
(* The server: server_run on a loaded graph, the handler of every          *)
(* connection, the routing workers and the traffic workers.  A mutex       *)
(* critical section is one step; pthread_cond_wait ends the step that      *)
(* enters it, and the woken thread takes the mutex again and tests its     *)
(* condition again in its next step.                                       *)
(***************************************************************************)
\* the graph the server runs on: nodes.csv is Layout, edges.csv is
\*   0,0,1,6,1   1,1,2,7,1   2,0,2,8,1
ServerGraph ==
    graph_add_edge(
      graph_add_edge(
        graph_add_edge(
          graph_set_node_coordinates(
            graph_set_node_coordinates(graph_init(3, 3), 1, DInt(3), DInt(0)),
            2, DInt(3), DInt(4)),
          0, 0, 1, DInt(6), DInt(1)),
        1, 1, 2, DInt(7), DInt(1)),
      2, 0, 2, DInt(8), DInt(1))

\* the lines a client sends
ClientLines ==
    { <<>>,
      <<Word("FOO")>>,
      <<Word("REQ"), IntField(0), IntField(2)>>,
      <<Word("UPD"), IntField(2), NumField(<<1, 2>>)>>,
      <<Word("UPD"), IntField(0), IntField(-1)>>,
      <<Word("UPD"), NumField(<<5, 2>>)>> }

\* the lines read so far on the connections 1..c
RECURSIVE LinesRead(_)
LinesRead(c) == IF c = 0 THEN 0 ELSE Len(sent[c]) + LinesRead(c - 1)

RECURSIVE CountLoop(_, _)
CountLoop(G, e) ==
    IF e >= G.num_edges THEN 0
    ELSE G.edges[e].observation_count + CountLoop(G, e + 1)

\* the number of updates apply_update has completed on G (line 265)
UpdatesApplied(G) == CountLoop(G, 0)

\* no MinHeap before createMinHeap
NoHeap == [capacity |-> 0, size |-> 0, pos |-> << >>, array |-> << >>]

\* no search is looked into
HeapIdle == heap = NoHeap /\ extracted = <<>>

\* queue_init, pthread_rwlock_init, the worker pools started, every
\* connection accepted and its handler about to read
SrvInit ==
    /\ tasks = << >>
    /\ routing_q = [items |-> <<>>, waiters |-> {}]
    /\ traffic_q = [items |-> <<>>, waiters |-> {}]
    /\ graph_lock = [readers |-> {}, writer |-> NoWriter]
    /\ client = [c \in Clients |-> [pc |-> "recv", t |-> NoTask, resp |-> NULL]]
    /\ rworker = [w \in RWorkers |-> [pc |-> "pop", t |-> NoTask, resp |-> NULL]]
    /\ tworker = [w \in TWorkers |-> [pc |-> "pop", t |-> NoTask, resp |-> NULL]]
    /\ sent = [c \in Clients |-> <<>>]
    /\ out = [c \in Clients |-> <<>>]
    /\ snap = [w \in RWorkers |-> ServerGraph]
    /\ applied = {}
    /\ seen = [t \in Clients \X (1..MaxLines) |-> -1]

Init ==
    /\ g = ServerGraph
    /\ phase = "serve"
    /\ loaded_edges = ServerGraph.num_edges
    /\ obs = [e \in 0..(ServerGraph.num_edges - 1) |-> <<>>]
    /\ last = NoCall
    /\ SrvInit
    /\ HeapIdle

\* ---- client_thread_main ----

\* line 334: recv_line returns 0, the handler closes the socket and ends
ClientEof(c) ==
    /\ client[c].pc = "recv"
    /\ client' = [client EXCEPT ![c].pc = "closed"]
    /\ UNCHANGED heapVars
    /\ UNCHANGED <<graphVars, tasks, routing_q, traffic_q, graph_lock, rworker,
                   tworker, sent, out, snap, applied, seen>>

\* lines 333-374: a line that the handler answers itself
ClientRecvBad(c, line) ==
    /\ client[c].pc = "recv"
    /\ Len(sent[c]) < MaxLines
    /\ LinesRead(NumClients) < MaxTotalLines
    /\ ParseLine(line).op \in {"EMPTY", "UNKNOWN"}
    /\ sent' = [sent EXCEPT ![c] = Append(@, line)]
    /\ LET reply == IF ParseLine(line).op = "EMPTY" THEN Err("EMPTY")
                    ELSE Err("UNKNOWN_CMD")
       IN  /\ out' = [out EXCEPT ![c] = Append(@, reply)]
           /\ client' = [client EXCEPT ![c].pc = NextPc(reply)]
    /\ UNCHANGED <<heapVars, graphVars, tasks, routing_q, traffic_q, graph_lock,
                   rworker, tworker, snap, applied, seen>>

\* lines 333-366: a REQ or UPD line; the task is created and filled
ClientRecvCmd(c, line) ==
    /\ client[c].pc = "recv"
    /\ Len(sent[c]) < MaxLines
    /\ LinesRead(NumClients) < MaxTotalLines
    /\ ParseLine(line).op \in {"REQ", "UPD"}
    /\ LET p  == ParseLine(line)
           id == <<c, Len(sent[c]) + 1>>
           t  == IF p.op = "REQ"
                 THEN [task_create(c) EXCEPT !.type = TASK_REQ, !.src = p.a,
                                             !.dst = p.b]
                 ELSE [task_create(c) EXCEPT !.type = TASK_UPD, !.edge_id = p.a,
                                             !.speed = p.x]
       IN  /\ tasks' = (id :> t) @@ tasks
           /\ client' = [client EXCEPT ![c].pc = "push", ![c].t = id]
    /\ sent' = [sent EXCEPT ![c] = Append(@, line)]
    /\ UNCHANGED heapVars
    /\ UNCHANGED <<graphVars, routing_q, traffic_q, graph_lock, rworker, tworker,
                   out, snap, applied, seen>>

\* lines 361, 114-125: queue_push on routing_q; pthread_cond_signal wakes
\* one of the workers waiting in queue_pop, if any
ClientPushReq(c) ==
    /\ client[c].pc = "push"
    /\ TaskOf(tasks, client[c].t).type = TASK_REQ
    /\ \/ /\ routing_q.waiters = {}
          /\ routing_q' = queue_push(routing_q, client[c].t)
          /\ UNCHANGED rworker
       \/ \E w \in routing_q.waiters :
             /\ routing_q' = [queue_push(routing_q, client[c].t)
                                 EXCEPT !.waiters = @ \ {w}]
             /\ rworker' = [rworker EXCEPT ![w].pc = "pop"]
    /\ client' = [client EXCEPT ![c].pc = "wait"]
    /\ UNCHANGED heapVars
    /\ UNCHANGED <<graphVars, tasks, traffic_q, graph_lock, tworker, sent, out,
                   snap, applied, seen>>

\* lines 368, 114-125: queue_push on traffic_q
ClientPushUpd(c) ==
    /\ client[c].pc = "push"
    /\ TaskOf(tasks, client[c].t).type = TASK_UPD
    /\ \/ /\ traffic_q.waiters = {}
          /\ traffic_q' = queue_push(traffic_q, client[c].t)
          /\ UNCHANGED tworker
       \/ \E w \in traffic_q.waiters :
             /\ traffic_q' = [queue_push(traffic_q, client[c].t)
                                 EXCEPT !.waiters = @ \ {w}]
             /\ tworker' = [tworker EXCEPT ![w].pc = "pop"]
    /\ client' = [client EXCEPT ![c].pc = "wait"]
    /\ UNCHANGED heapVars
    /\ UNCHANGED <<graphVars, tasks, routing_q, graph_lock, rworker, sent, out,
                   snap, applied, seen>>

\* lines 377-382: t->mu taken, the flag tested; pthread_cond_wait when it
\* is not set, else the response is read
ClientWait(c) ==
    /\ client[c].pc = "wait"
    /\ client' = IF TaskDone(tasks, client[c].t)
                 THEN [client EXCEPT ![c].pc = "send",
                                     ![c].resp = TaskOf(tasks, client[c].t).response]
                 ELSE [client EXCEPT ![c].pc = "cvwait"]
    /\ UNCHANGED heapVars
    /\ UNCHANGED <<graphVars, tasks, routing_q, traffic_q, graph_lock, rworker,
                   tworker, sent, out, snap, applied, seen>>

\* lines 384-390: the reply is written and the task destroyed
ClientSend(c) ==
    /\ client[c].pc = "send"
    /\ out' = [out EXCEPT ![c] = Append(@, ReplyOf(client[c].resp))]
    /\ tasks' = task_destroy(tasks, client[c].t)
    /\ client' = [client EXCEPT ![c].pc = NextPc(ReplyOf(client[c].resp)),
                                ![c].t = NoTask, ![c].resp = NULL]
    /\ UNCHANGED heapVars
    /\ UNCHANGED <<graphVars, routing_q, traffic_q, graph_lock, rworker, tworker,
                   sent, snap, applied, seen>>

\* a slip that sets the flag and signals nobody
WakeNobody(t) == client

\* line 145: pthread_cond_signal(&t->cv) wakes the handler waiting on t
WakeHandler(t) ==
    [c \in DOMAIN client |->
        IF client[c].t = t /\ client[c].pc = "cvwait"
        THEN [client[c] EXCEPT !.pc = "wait"] ELSE client[c]]

\* ---- routing_worker_main ----

\* lines 289, 127-138: queue_pop; pthread_cond_wait when the list is empty
RPop(w) ==
    /\ rworker[w].pc = "pop"
    /\ IF routing_q.items = <<>>
       THEN /\ routing_q' = [routing_q EXCEPT !.waiters = @ \cup {w}]
            /\ rworker' = [rworker EXCEPT ![w].pc = "qwait"]
       ELSE /\ routing_q' = queue_pop(routing_q)
            /\ rworker' = [rworker EXCEPT ![w].pc = "rdlock",
                                         ![w].t = Head(routing_q.items)]
    /\ UNCHANGED heapVars
    /\ UNCHANGED <<graphVars, tasks, traffic_q, graph_lock, client, tworker,
                   sent, out, snap, applied, seen>>

\* line 291: pthread_rwlock_rdlock
RLock(w) ==
    /\ rworker[w].pc = "rdlock"
    /\ CanReadLock(graph_lock)
    /\ graph_lock' = [graph_lock EXCEPT !.readers = @ \cup {w}]
    /\ rworker' = [rworker EXCEPT ![w].pc = "route"]
    /\ snap' = [snap EXCEPT ![w] = g]
    /\ UNCHANGED heapVars
    /\ UNCHANGED <<graphVars, tasks, routing_q, traffic_q, client, tworker,
                   sent, out, applied, seen>>

\* line 292: build_route_response
RRoute(w) ==
    /\ rworker[w].pc = "route"
    /\ rworker' = [rworker EXCEPT
                      ![w].pc = "unlock",
                      ![w].resp = build_route_response(g,
                                      TaskOf(tasks, rworker[w].t).src,
                                      TaskOf(tasks, rworker[w].t).dst)]
    /\ seen' = [seen EXCEPT ![rworker[w].t] = UpdatesApplied(g)]
    /\ UNCHANGED heapVars
    /\ UNCHANGED <<graphVars, tasks, routing_q, traffic_q, graph_lock, client,
                   tworker, sent, out, snap, applied>>

\* line 293: pthread_rwlock_unlock
RUnlock(w) ==
    /\ rworker[w].pc = "unlock"
    /\ graph_lock' = ReadUnlock(graph_lock, w)
    /\ rworker' = [rworker EXCEPT ![w].pc = "complete"]
    /\ UNCHANGED heapVars
    /\ UNCHANGED <<graphVars, tasks, routing_q, traffic_q, client, tworker,
                   sent, out, snap, applied, seen>>

\* line 295: task_complete
RComplete(w) ==
    /\ rworker[w].pc = "complete"
    /\ tasks' = task_complete(tasks, rworker[w].t, rworker[w].resp)
    /\ client' = WakeHandler(rworker[w].t)
    /\ rworker' = [rworker EXCEPT ![w].pc = "pop", ![w].t = NoTask, ![w].resp = NULL]
    /\ snap' = [snap EXCEPT ![w] = ServerGraph]
    /\ UNCHANGED heapVars
    /\ UNCHANGED <<graphVars, routing_q, traffic_q, graph_lock, tworker, sent,
                   out, applied, seen>>

\* ---- traffic_worker_main ----

\* lines 305, 127-138: queue_pop
TPop(w) ==
    /\ tworker[w].pc = "pop"
    /\ IF traffic_q.items = <<>>
       THEN /\ traffic_q' = [traffic_q EXCEPT !.waiters = @ \cup {w}]
            /\ tworker' = [tworker EXCEPT ![w].pc = "qwait"]
       ELSE /\ traffic_q' = queue_pop(traffic_q)
            /\ tworker' = [tworker EXCEPT ![w].pc = "wrlock",
                                         ![w].t = Head(traffic_q.items)]
    /\ UNCHANGED heapVars
    /\ UNCHANGED <<graphVars, tasks, routing_q, graph_lock, client, rworker,
                   sent, out, snap, applied, seen>>

\* line 307: pthread_rwlock_wrlock
TLock(w) ==
    /\ tworker[w].pc = "wrlock"
    /\ CanWriteLock(graph_lock)
    /\ graph_lock' = [graph_lock EXCEPT !.writer = w]
    /\ tworker' = [tworker EXCEPT ![w].pc = "update"]
    /\ UNCHANGED heapVars
    /\ UNCHANGED <<graphVars, tasks, routing_q, traffic_q, client, rworker,
                   sent, out, snap, applied, seen>>

\* lines 308, 249-263: apply_update up to the write of ema_travel_time
TUpdate(w) ==
    /\ tworker[w].pc = "update"
    /\ LET t   == TaskOf(tasks, tworker[w].t)
           chk == UpdateCheck(g, t.edge_id, t.speed)
       IN  IF chk # "OK"
           THEN /\ tworker' = [tworker EXCEPT ![w].pc = "unlock",
                                              ![w].resp = Err(chk)]
                /\ applied' = applied \cup {tworker[w].t}
                /\ UNCHANGED <<g, obs>>
           ELSE /\ g' = WriteEma(g, t.edge_id, t.speed)
                /\ tworker' = [tworker EXCEPT ![w].pc = "current"]
                /\ UNCHANGED <<applied, obs>>
    /\ UNCHANGED heapVars
    /\ UNCHANGED <<phase, loaded_edges, last, tasks, routing_q, traffic_q,
                   graph_lock, client, rworker, sent, out, snap, seen>>

\* line 264: the write of current_travel_time
TCurrent(w) ==
    /\ tworker[w].pc = "current"
    /\ g' = WriteCurrent(g, TaskOf(tasks, tworker[w].t).edge_id)
    /\ tworker' = [tworker EXCEPT ![w].pc = "count"]
    /\ UNCHANGED heapVars
    /\ UNCHANGED <<phase, loaded_edges, obs, last, tasks, routing_q, traffic_q,
                   graph_lock, client, rworker, sent, out, snap, applied, seen>>

\* lines 265-267: observation_count++ and the ACK
TCount(w) ==
    /\ tworker[w].pc = "count"
    /\ g' = WriteCount(g, TaskOf(tasks, tworker[w].t).edge_id)
    /\ obs' = [obs EXCEPT ![TaskOf(tasks, tworker[w].t).edge_id] =
                  Append(@, TaskOf(tasks, tworker[w].t).speed)]
    /\ applied' = applied \cup {tworker[w].t}
    /\ tworker' = [tworker EXCEPT ![w].pc = "unlock", ![w].resp = Ack]
    /\ UNCHANGED heapVars
    /\ UNCHANGED <<phase, loaded_edges, last, tasks, routing_q, traffic_q,
                   graph_lock, client, rworker, sent, out, snap, seen>>

\* line 309: pthread_rwlock_unlock
TUnlock(w) ==
    /\ tworker[w].pc = "unlock"
    /\ graph_lock' = WriteUnlock(graph_lock, w)
    /\ tworker' = [tworker EXCEPT ![w].pc = "complete"]
    /\ UNCHANGED heapVars
    /\ UNCHANGED <<graphVars, tasks, routing_q, traffic_q, client, rworker,
                   sent, out, snap, applied, seen>>

\* line 311: task_complete
TComplete(w) ==
    /\ tworker[w].pc = "complete"
    /\ tasks' = task_complete(tasks, tworker[w].t, tworker[w].resp)
    /\ client' = WakeHandler(tworker[w].t)
    /\ tworker' = [tworker EXCEPT ![w].pc = "pop", ![w].t = NoTask, ![w].resp = NULL]
    /\ UNCHANGED heapVars
    /\ UNCHANGED <<graphVars, routing_q, traffic_q, graph_lock, rworker, sent,
                   out, snap, applied, seen>>

Next ==
    \/ \E c \in Clients : ClientEof(c)
    \/ \E c \in Clients, line \in ClientLines : ClientRecvBad(c, line)
    \/ \E c \in Clients, line \in ClientLines : ClientRecvCmd(c, line)
    \/ \E c \in Clients : ClientPushReq(c)
    \/ \E c \in Clients : ClientPushUpd(c)
    \/ \E c \in Clients : ClientWait(c)
    \/ \E c \in Clients : ClientSend(c)
    \/ \E w \in RWorkers : RPop(w)
    \/ \E w \in RWorkers : RLock(w)
    \/ \E w \in RWorkers : RRoute(w)
    \/ \E w \in RWorkers : RUnlock(w)
    \/ \E w \in RWorkers : RComplete(w)
    \/ \E w \in TWorkers : TPop(w)
    \/ \E w \in TWorkers : TLock(w)
    \/ \E w \in TWorkers : TUpdate(w)
    \/ \E w \in TWorkers : TCurrent(w)
    \/ \E w \in TWorkers : TCount(w)
    \/ \E w \in TWorkers : TUnlock(w)
    \/ \E w \in TWorkers : TComplete(w)

Spec == Init /\ [][Next]_vars

(***************************************************************************)
(* The server on the three kinds of line a well-behaved client sends, and  *)
(* under weak fairness of every thread: a handler that has read a line,    *)
(* and every worker, takes its next step when it stays enabled.  What the  *)
(* clients send, and when they close, is not forced.                       *)
(***************************************************************************)
\* an empty line, REQ 0 2 and UPD 2 0.5
CmdLines ==
    { <<>>,
      <<Word("REQ"), IntField(0), IntField(2)>>,
      <<Word("UPD"), IntField(2), NumField(<<1, 2>>)>> }

HandlerStep(c) ==
    \/ ClientPushReq(c)
    \/ ClientPushUpd(c)
    \/ ClientWait(c)
    \/ ClientSend(c)

\* the steps of a routing worker around the search
RoutingStep(w) ==
    \/ RPop(w)
    \/ RLock(w)
    \/ RUnlock(w)
    \/ RComplete(w)

\* the steps of a traffic worker around the first write
TrafficStep(w) ==
    \/ TPop(w)
    \/ TLock(w)
    \/ TCurrent(w)
    \/ TCount(w)
    \/ TUnlock(w)
    \/ TComplete(w)

NextCmd ==
    \/ \E c \in Clients : ClientEof(c)
    \/ \E c \in Clients, line \in CmdLines : ClientRecvBad(c, line)
    \/ \E c \in Clients, line \in CmdLines : ClientRecvCmd(c, line)
    \/ \E c \in Clients : HandlerStep(c)
    \/ \E w \in RWorkers : RoutingStep(w) \/ RRoute(w)
    \/ \E w \in TWorkers : TrafficStep(w) \/ TUpdate(w)

\* RRoute(w) and TUpdate(w) have no guard but the worker's position and
\* always move it, so ENABLED <<RRoute(w)>>_vars is rworker[w].pc = "route"
\* and ENABLED <<TUpdate(w)>>_vars is tworker[w].pc = "update"; their weak
\* fairness is written out with these conditions.
Fairness ==
    /\ \A c \in Clients : WF_vars(HandlerStep(c))
    /\ \A w \in RWorkers :
          /\ WF_vars(RoutingStep(w))
          /\ []<>(rworker[w].pc # "route") \/ []<><<RRoute(w)>>_vars
    /\ \A w \in TWorkers :
          /\ WF_vars(TrafficStep(w))
          /\ []<>(tworker[w].pc # "update") \/ []<><<TUpdate(w)>>_vars

SpecLive == Init /\ [][NextCmd]_vars /\ Fairness

\* the same runs with no fairness assumed
SpecCmd == Init /\ [][NextCmd]_vars

(***************************************************************************)
(* The server on UPD lines alone: two speeds for edge 2 and one update of  *)
(* edge 0, so that the order of two updates of one edge shows in the       *)
(* graph.  The routing workers only go to sleep in queue_pop.              *)
(***************************************************************************)
\* UPD 2 0.5, UPD 2 4 and UPD 0 4
UpdLines ==
    { <<Word("UPD"), IntField(2), NumField(<<1, 2>>)>>,
      <<Word("UPD"), IntField(2), IntField(4)>>,
      <<Word("UPD"), IntField(0), IntField(4)>> }

NextUpd ==
    \/ \E c \in Clients : ClientEof(c)
    \/ \E c \in Clients, line \in UpdLines : ClientRecvCmd(c, line)
    \/ \E c \in Clients : ClientPushUpd(c)
    \/ \E c \in Clients : ClientWait(c)
    \/ \E c \in Clients : ClientSend(c)
    \/ \E w \in RWorkers : RPop(w)
    \/ \E w \in TWorkers : TrafficStep(w) \/ TUpdate(w)

SpecUpd == Init /\ [][NextUpd]_vars

(***************************************************************************)
(* bounds of the engine specifications                                     *)
(***************************************************************************)
\* nodes of the loaded graph (graph.meta: num_nodes)
NumNodes == 3

\* edges of the loaded graph (graph.meta: num_edges)
NumEdges == 3

\* updates executed after loading
MaxUpd == 1

\* nodes.csv: the coordinates of node i are Layout[i + 1]
Layout == << <<0, 0>>, <<3, 0>>, <<3, 4>>, <<0, 4>> >>

\* the straight distance between two nodes of the layout
LayoutDist(a, b) ==
    DSqrt(DInt((Layout[a + 1][1] - Layout[b + 1][1]) * (Layout[a + 1][1] - Layout[b + 1][1])
             + (Layout[a + 1][2] - Layout[b + 1][2]) * (Layout[a + 1][2] - Layout[b + 1][2])))

\* edges.csv: a road from a to b is 3 longer than the straight distance, and
\* its speed limit is 2 towards a lower node id, 1 otherwise
RoadLength(a, b) == DAdd(LayoutDist(a, b), DInt(3))

RoadLimit(a, b) == IF a > b THEN DInt(2) ELSE DInt(1)

\* the speeds an UPD line may carry
RouteSpeeds == {<<1, 2>>, DInt(4), NaN}

RECURSIVE LoadNodes(_, _)
LoadNodes(G, i) ==
    IF i >= G.num_nodes THEN G
    ELSE LoadNodes(graph_set_node_coordinates(G, i, DInt(Layout[i + 1][1]),
                                              DInt(Layout[i + 1][2])), i + 1)

\* graph_load_from_files up to the edges file
InitRoute ==
    /\ g = LoadNodes(graph_init(NumNodes, NumEdges), 0)
    /\ phase = "load"
    /\ loaded_edges = 0
    /\ obs = [e \in 0..(NumEdges - 1) |-> <<>>]
    /\ last = NoCall
    /\ SrvInit
    /\ HeapIdle

\* graph_load_from_files, lines 137-161: one line of edges.csv.  The lines
\* come ordered by their from node: the adjacency list of every node still
\* takes every order, and only the numbering of the edges is fixed.
LoadEdge(from, to, len, speed) ==
    /\ phase = "load"
    /\ loaded_edges < g.num_edges
    /\ \A e \in 0..(loaded_edges - 1) : g.edges[e].from_node <= from
    /\ graph_add_edge_ok(g, loaded_edges, from, to, speed)
    /\ g' = graph_add_edge(g, loaded_edges, from, to, len, speed)
    /\ loaded_edges' = loaded_edges + 1
    /\ phase' = IF loaded_edges' = g.num_edges THEN "serve" ELSE "load"
    /\ UNCHANGED <<heapVars, obs, last, srvVars>>

RECURSIVE SumLen(_, _)
SumLen(f, S) ==
    IF S = {} THEN 0
    ELSE LET x == CHOOSE y \in S : TRUE IN Len(f[x]) + SumLen(f, S \ {x})

\* updates accepted so far
Updates == SumLen(obs, DOMAIN obs)

\* one UPD executed by apply_update
Upd(edge_id, speed) ==
    /\ phase = "serve"
    /\ last = NoCall
    /\ LET r == apply_update(g, edge_id, speed) IN
       /\ g' = r.g
       /\ obs' = IF r.resp = Ack THEN [obs EXCEPT ![edge_id] = Append(@, speed)]
                 ELSE obs
       /\ last' = [op |-> "UPD", edge_id |-> edge_id, speed |-> speed,
                   resp |-> r.resp]
    /\ UNCHANGED <<heapVars, phase, loaded_edges, srvVars>>

\* one REQ executed by build_route_response; r is the result of
\* find_route_a_star_path, which is not called when a node id is out of range
Req(src, dst) ==
    /\ phase = "serve"
    /\ last = NoCall
    /\ LET r == RouteCall(g, src, dst) IN
       last' = [op |-> "REQ", src |-> src, dst |-> dst, r |-> r,
                resp |-> IF build_route_response(g, src, dst) = Err("BAD_NODES")
                         THEN Err("BAD_NODES")
                         ELSE RouteReply(g, r)]
    /\ UNCHANGED <<heapVars, g, phase, loaded_edges, obs, srvVars>>

\* the caller is done with the reply (task_destroy frees it)
Done ==
    /\ last # NoCall
    /\ last' = NoCall
    /\ UNCHANGED <<heapVars, g, phase, loaded_edges, obs, srvVars>>

NextRoute ==
    \/ \E from, to \in 0..(NumNodes - 1) :
          LoadEdge(from, to, RoadLength(from, to), RoadLimit(from, to))
    \/ \E e \in 0..(NumEdges - 1), s \in RouteSpeeds :
          /\ Updates < MaxUpd
          /\ Upd(e, s)
    \/ \E src, dst \in 0..(NumNodes - 1) : Req(src, dst)
    \/ Done

SpecRoute == InitRoute /\ [][NextRoute]_vars

(***************************************************************************)
(* The traffic engine on its own: a loaded two-node graph and a run of     *)
(* UPD and REQ commands, rejected ones included.                           *)
(***************************************************************************)
\* updates accepted after loading
MaxObs == 3

\* the speeds an UPD line may carry: "%lf" also reads nan
TrafficSpeeds == {DInt(-1), DInt(0), <<1, 10000000>>, <<1, 2>>, DInt(4), NaN}

\* edges.csv of the two-node graph: 0 -> 1 and 1 -> 0
TrafficLengths == {DInt(2), DInt(3)}

TrafficLimits == {DInt(1), DInt(2)}

InitTraffic ==
    /\ \E len \in TrafficLengths, lim \in TrafficLimits :
          g = graph_add_edge(
                graph_add_edge(
                  graph_set_node_coordinates(graph_init(2, 2), 1, DInt(1), DInt(0)),
                  0, 0, 1, len, lim),
                1, 1, 0, DInt(3), DInt(1))
    /\ phase = "serve"
    /\ loaded_edges = 2
    /\ obs = [e \in 0..1 |-> <<>>]
    /\ last = NoCall
    /\ SrvInit
    /\ HeapIdle

NextTraffic ==
    \/ \E e \in -1..2, s \in TrafficSpeeds :
          /\ Updates < MaxObs
          /\ Upd(e, s)
    \/ \E src, dst \in -1..2 : Req(src, dst)
    \/ Done

SpecTraffic == InitTraffic /\ [][NextTraffic]_vars

(***************************************************************************)
(* Construction on its own: graph_load_from_files on a graph.meta of two   *)
(* nodes and two edges and any edges.csv of up to three lines, ids and     *)
(* numbers out of range included, then UPD commands on what was loaded.    *)
(***************************************************************************)
\* the edge ids and node ids a line of edges.csv may carry
LoadIds == -1..2

\* the lengths and speed limits a line of edges.csv may carry
LoadLengths == {DInt(-3), DInt(3)}

LoadLimits == {DInt(0), DInt(1)}

\* graph_load_from_files up to the edges file, nodes.csv giving (0,0), (1,0)
InitLoad ==
    /\ g = graph_set_node_coordinates(graph_init(2, 2), 1, DInt(1), DInt(0))
    /\ phase = "load"
    /\ loaded_edges = 0
    /\ obs = [e \in 0..1 |-> <<>>]
    /\ last = NoCall
    /\ SrvInit
    /\ HeapIdle

\* graph_load_from_files, lines 137-161: one line of edges.csv; return 33
\* and the exit(1) of graph_add_edge both end the program
LoadLine(edge_id, from, to, len, speed) ==
    /\ phase = "load"
    /\ loaded_edges <= g.num_edges
    /\ IF edge_id < 0 \/ edge_id >= g.num_edges
       THEN phase' = "failed" /\ UNCHANGED <<g, loaded_edges>>
       ELSE IF ~graph_add_edge_ok(g, edge_id, from, to, speed)
       THEN phase' = "failed" /\ UNCHANGED <<g, loaded_edges>>
       ELSE /\ g' = graph_add_edge(g, edge_id, from, to, len, speed)
            /\ loaded_edges' = loaded_edges + 1
            /\ phase' = phase
    /\ UNCHANGED <<heapVars, obs, last, srvVars>>

\* graph_load_from_files, lines 163-172: the end of edges.csv
LoadEof ==
    /\ phase = "load"
    /\ phase' = IF loaded_edges # g.num_edges THEN "failed" ELSE "serve"
    /\ UNCHANGED <<heapVars, g, loaded_edges, obs, last, srvVars>>

NextLoad ==
    \/ \E edge_id, from, to \in LoadIds, len \in LoadLengths, speed \in LoadLimits :
          LoadLine(edge_id, from, to, len, speed)
    \/ LoadEof
    \/ \E e \in 0..1, s \in {<<1, 2>>, DInt(4)} :
          /\ Updates < MaxUpd
          /\ Upd(e, s)
    \/ Done

SpecLoad == InitLoad /\ [][NextLoad]_vars

(***************************************************************************)
(* The server under sustained read load: one connection sends UPD 2 0.5,   *)
(* the others send REQ 0 2 again after every reply and never close.  The   *)
(* histories keep the line in progress only, so that the run can go on for *)
(* ever.  The schedules are those of overlapping searches: a routing       *)
(* worker leaves the lock while another one is inside.  Every thread is    *)
(* scheduled fairly and the querying connections keep sending.             *)
(***************************************************************************)
\* the connections: the updating one and NumClients querying ones
StarveConns == 1..(NumClients + 1)

Updater == 1

Queriers == StarveConns \ {Updater}

ReqLine == <<Word("REQ"), IntField(0), IntField(2)>>

UpdLine == <<Word("UPD"), IntField(2), NumField(<<1, 2>>)>>

\* the lines connection c sends
LoadLines(c) == IF c = Updater THEN {UpdLine} ELSE {ReqLine}

InitStarve ==
    /\ g = ServerGraph
    /\ phase = "serve"
    /\ loaded_edges = ServerGraph.num_edges
    /\ obs = [e \in 0..(ServerGraph.num_edges - 1) |-> <<>>]
    /\ last = NoCall
    /\ tasks = << >>
    /\ routing_q = [items |-> <<>>, waiters |-> {}]
    /\ traffic_q = [items |-> <<>>, waiters |-> {}]
    /\ graph_lock = [readers |-> {}, writer |-> NoWriter]
    /\ client = [c \in StarveConns |-> [pc |-> "recv", t |-> NoTask, resp |-> NULL]]
    /\ rworker = [w \in RWorkers |-> [pc |-> "pop", t |-> NoTask, resp |-> NULL]]
    /\ tworker = [w \in TWorkers |-> [pc |-> "pop", t |-> NoTask, resp |-> NULL]]
    /\ sent = [c \in StarveConns |-> <<>>]
    /\ out = [c \in StarveConns |-> <<>>]
    /\ snap = [w \in RWorkers |-> ServerGraph]
    /\ applied = {}
    /\ seen = [t \in StarveConns \X {1} |-> -1]
    /\ HeapIdle

\* lines 333-366: the next REQ or UPD line of a connection; of the lines
\* and replies before it nothing is kept
ClientRecvMore(c, line) ==
    /\ client[c].pc = "recv"
    /\ ParseLine(line).op \in {"REQ", "UPD"}
    /\ ParseLine(line).op = "UPD" => Updates < MaxUpd
    /\ LET p  == ParseLine(line)
           id == <<c, 1>>
           t  == IF p.op = "REQ"
                 THEN [task_create(c) EXCEPT !.type = TASK_REQ, !.src = p.a,
                                             !.dst = p.b]
                 ELSE [task_create(c) EXCEPT !.type = TASK_UPD, !.edge_id = p.a,
                                             !.speed = p.x]
       IN  /\ tasks' = (id :> t) @@ tasks
           /\ client' = [client EXCEPT ![c].pc = "push", ![c].t = id]
           /\ seen' = [seen EXCEPT ![id] = -1]
    /\ sent' = [sent EXCEPT ![c] = <<line>>]
    /\ out' = [out EXCEPT ![c] = <<>>]
    /\ UNCHANGED heapVars
    /\ UNCHANGED <<graphVars, routing_q, traffic_q, graph_lock, rworker, tworker,
                   snap, applied>>

\* line 293, taken while another search is inside the lock
RUnlockOverlapped(w) ==
    /\ graph_lock.readers \ {w} # {}
    /\ RUnlock(w)

RoutingStepOverlapped(w) ==
    \/ RPop(w)
    \/ RLock(w)
    \/ RUnlockOverlapped(w)
    \/ RComplete(w)

NextStarve ==
    \/ \E c \in StarveConns : \E line \in LoadLines(c) : ClientRecvMore(c, line)
    \/ \E c \in StarveConns : HandlerStep(c)
    \/ \E w \in RWorkers : RoutingStepOverlapped(w) \/ RRoute(w)
    \/ \E w \in TWorkers : TrafficStep(w) \/ TUpdate(w)

FairStarve ==
    /\ \A c \in Queriers : WF_vars(ClientRecvMore(c, ReqLine))
    /\ \A c \in StarveConns : WF_vars(HandlerStep(c))
    /\ \A w \in RWorkers :
          /\ WF_vars(RoutingStepOverlapped(w))
          /\ []<>(rworker[w].pc # "route") \/ []<><<RRoute(w)>>_vars
    /\ \A w \in TWorkers :
          /\ WF_vars(TrafficStep(w))
          /\ []<>(tworker[w].pc # "update") \/ []<><<TUpdate(w)>>_vars

SpecStarve == InitStarve /\ [][NextStarve]_vars /\ FairStarve

(***************************************************************************)
(* The heap of one search on its own: filled as find_route_a_star_path     *)
(* fills it, then any sequence of the two calls the search makes on it,    *)
(* decreaseKey on a node that isInMinHeap with a key not above the node's  *)
(* key, and extractMin while the heap is not empty.                        *)
(***************************************************************************)
\* nodes of the graph searched
HeapV == 4

\* the keys f_score takes
HeapKeys == {DInt(0), DInt(1), DInt(2), <<5, 2>>}

\* routing.c lines 296-310: createMinHeap, every node with key DBL_MAX
HeapFilled(V) ==
    [capacity |-> V, size |-> V,
     pos |-> [i \in 0..(V - 1) |-> i],
     array |-> [i \in 0..(V - 1) |-> newMinHeapNode(i, DBL_MAX)]]

InitHeap ==
    /\ g = ServerGraph
    /\ phase = "serve"
    /\ loaded_edges = ServerGraph.num_edges
    /\ obs = [e \in 0..(ServerGraph.num_edges - 1) |-> <<>>]
    /\ last = NoCall
    /\ SrvInit
    /\ heap = HeapFilled(HeapV)
    /\ extracted = <<>>

\* routing.c lines 314 and 359-361: decreaseKey, called for a node in the
\* heap with an f_score below the one it had
HeapDecrease(v, key) ==
    /\ heap # NoHeap
    /\ isInMinHeap(heap, v)
    /\ DLe(key, heap.array[heap.pos[v]].dist)
    /\ heap' = decreaseKey(heap, v, key)
    /\ UNCHANGED <<graphVars, srvVars, extracted>>

\* routing.c lines 319-322: extractMin while the heap is not empty
HeapExtract ==
    /\ heap # NoHeap
    /\ ~isEmpty(heap)
    /\ heap' = extractMin(heap).heap
    /\ extracted' = Append(extracted, extractMin(heap).root)
    /\ UNCHANGED <<graphVars, srvVars>>

NextHeap ==
    \/ \E v \in 0..(HeapV - 1), key \in HeapKeys : HeapDecrease(v, key)
    \/ HeapExtract

SpecHeap == InitHeap /\ [][NextHeap]_vars

(***************************************************************************)
(* Reference definitions the properties are stated with.                   *)
(***************************************************************************)
Loaded == phase = "serve"

NodeIds == 0..(g.num_nodes - 1)

EdgeIds == 0..(g.num_edges - 1)

IsPositive(a) == DGt(a, DInt(0))

AllPositive(s) == \A i \in 1..Len(s) : IsPositive(s[i])

DMax(a, b) == IF DLt(a, b) THEN b ELSE a

DMin(a, b) == IF DLt(b, a) THEN b ELSE a

\* the recurrence x <- a*(len/max(s_i, 1e-6)) + (1-a)*x over s[i..], with
\* a = 1 for the first observation and a = 0.2 for the later ones
RECURSIVE EmaFold(_, _, _, _)
EmaFold(x, len, s, i) ==
    IF i > Len(s) THEN x
    ELSE LET a == IF i = 1 THEN DInt(1) ELSE <<1, 5>>
             m == DDiv(len, DMax(s[i], <<1, 1000000>>))
         IN  EmaFold(DAdd(DMul(a, m), DMul(DSub(DInt(1), a), x)), len, s, i + 1)

WeightsNonNegative == \A e \in EdgeIds : DLe(DInt(0), get_edge_weight(g, e))

\* one round of relaxation of every edge on the distances d
RelaxAll(d) ==
    [v \in NodeIds |->
        LET into == {e \in EdgeIds : g.edges[e].to_node = v}
            RECURSIVE Best(_, _)
            Best(S, b) ==
                IF S = {} THEN b
                ELSE LET e == CHOOSE x \in S : TRUE IN
                     Best(S \ {e},
                          DMin(b, DAdd(d[g.edges[e].from_node],
                                       get_edge_weight(g, e))))
        IN  Best(into, d[v])]

RECURSIVE RelaxRounds(_, _)
RelaxRounds(d, k) == IF k = 0 THEN d ELSE RelaxRounds(RelaxAll(d), k - 1)

\* shortest-path cost from s to every node on the current weights
\* (Bellman-Ford; DBL_MAX where there is no path)
ShortestFrom(s) ==
    RelaxRounds([v \in NodeIds |-> IF v = s THEN DInt(0) ELSE DBL_MAX],
                g.num_nodes)

\* the nodes reachable from the set S along directed edges
RECURSIVE ReachFrom(_)
ReachFrom(S) ==
    LET T == S \cup {g.edges[e].to_node : e \in {x \in EdgeIds : g.edges[x].from_node \in S}}
    IN  IF T = S THEN S ELSE ReachFrom(T)

Reachable(s, t) == t \in ReachFrom({s})

\* the summation the claim names: in path order, from the first edge
RECURSIVE PathSumFrom(_, _, _)
PathSumFrom(edges, i, acc) ==
    IF i > Len(edges) THEN acc
    ELSE PathSumFrom(edges, i + 1, DAdd(acc, get_edge_weight(g, edges[i])))

IsReq == last # NoCall /\ last.op = "REQ"

ValidReq == IsReq /\ last.src \in NodeIds /\ last.dst \in NodeIds

(***************************************************************************)
(* C1: on every connection the handler writes exactly one reply per        *)
(* command line, and the i-th reply is the reply to the i-th line, under   *)
(* every interleaving with the other connections and the workers.          *)
(***************************************************************************)
\* reply is a reply the server gives to line
AnswerTo(line, reply) ==
    LET p == ParseLine(line) IN
    CASE p.op = "EMPTY"   -> reply = Err("EMPTY")
      [] p.op = "UNKNOWN" -> reply = Err("UNKNOWN_CMD")
      [] p.op = "UPD"     ->
            IF UpdateCheck(g, p.a, p.x) = "OK" THEN reply = Ack
            ELSE reply = Err(UpdateCheck(g, p.a, p.x))
      [] p.op = "REQ"     ->
            IF p.a \notin NodeIds \/ p.b \notin NodeIds
            THEN reply = Err("BAD_NODES")
            ELSE \/ reply \in {Err("NO_ROUTE"), Err("ROUTE_FAIL")}
                 \/ /\ reply.kind = "ROUTE2"
                    /\ Len(reply.nodes) >= 1
                    /\ reply.nodes[1] = p.a
                    /\ reply.nodes[Len(reply.nodes)] = p.b

\* the handler of c has read a line that it has not answered yet
Busy(c) == client[c].pc \in {"push", "wait", "cvwait", "send"}

LiveTasks(c) == {t \in DOMAIN tasks : t[1] = c}

OpenConnections == {c \in Clients : client[c].pc # "closed"}

C2_OneTaskPerConnection ==
    /\ \A c \in Clients :
          /\ Cardinality(LiveTasks(c)) <= 1
          /\ LiveTasks(c) # {} => (Busy(c) /\ LiveTasks(c) = {client[c].t})
    /\ \A i \in 1..Len(routing_q.items) : routing_q.items[i] \in DOMAIN tasks
    /\ \A i \in 1..Len(traffic_q.items) : traffic_q.items[i] \in DOMAIN tasks
    /\ Len(routing_q.items) + Len(traffic_q.items) <= Cardinality(OpenConnections)

C2_Witness ==
    /\ Len(routing_q.items) + Len(traffic_q.items) = NumClients
    /\ \A c \in Clients : Cardinality(LiveTasks(c)) = 1 /\ Len(out[c]) < Len(sent[c])
    /\ \E c \in Clients : Len(out[c]) = 1

(***************************************************************************)
(* C3: a traffic worker inside apply_update excludes every other worker    *)
(* from graph_lock, routing workers may read together; a REQ task is       *)
(* executed only by a routing worker under the read lock, a UPD task only  *)
(* by a traffic worker under the write lock, and no edge field is written  *)
(* by a thread that does not hold the write lock.                          *)
(***************************************************************************)
InRoute(w) == rworker[w].pc \in {"route", "unlock"}

InUpdate(w) == tworker[w].pc \in {"update", "current", "count", "unlock"}

LockExclusion ==
    /\ \A w \in RWorkers : InRoute(w) <=> w \in graph_lock.readers
    /\ \A w \in TWorkers : InUpdate(w) <=> graph_lock.writer = w
    /\ graph_lock.writer # NoWriter => graph_lock.readers = {}
    /\ Cardinality({w \in TWorkers : InUpdate(w)}) <= 1
    /\ \A w \in RWorkers :
          rworker[w].t # NoTask => TaskOf(tasks, rworker[w].t).type = TASK_REQ
    /\ \A w \in TWorkers :
          tworker[w].t # NoTask => TaskOf(tasks, tworker[w].t).type = TASK_UPD

WriteUnderLock ==
    g' # g => \E w \in TWorkers :
                 /\ graph_lock.writer = w
                 /\ graph_lock.readers = {}
                 /\ tworker[w].pc \in {"update", "current", "count"}
                 /\ tworker'[w].pc # tworker[w].pc
                 /\ graph_lock' = graph_lock

C3_LockDiscipline == [] LockExclusion /\ [][WriteUnderLock]_vars

C3_Witness ==
    /\ \E w \in TWorkers : tworker[w].pc = "current" /\ graph_lock.writer = w
    /\ \E w \in RWorkers : rworker[w].pc = "rdlock"
    /\ \E c \in Clients : Len(out[c]) = 1 /\ out[c][1].kind = "ROUTE2"

(***************************************************************************)
(* C4: between a routing worker's acquisition of the read lock and its     *)
(* release the whole graph does not change, so the reply of a REQ is       *)
(* computed from the one graph state of the moment of the acquisition.     *)
(***************************************************************************)
C4_ConsistentSnapshot ==
    \A w \in RWorkers :
        /\ w \in graph_lock.readers => g = snap[w]
        /\ rworker[w].pc = "unlock" =>
              rworker[w].resp =
                 build_route_response(snap[w], TaskOf(tasks, rworker[w].t).src,
                                               TaskOf(tasks, rworker[w].t).dst)

C4_Witness ==
    \E w \in RWorkers :
        /\ rworker[w].pc = "unlock"
        /\ rworker[w].resp.kind = "ROUTE2"
        /\ snap[w] # ServerGraph
        /\ \E v \in TWorkers : tworker[v].pc = "wrlock"

(***************************************************************************)
(* C5: a command that follows a UPD on the same connection is executed on  *)
(* a graph state in which that UPD has been applied or rejected; a REQ     *)
(* after an acknowledged UPD never sees the weight from before it.         *)
(***************************************************************************)
\* the UPD lines of connection c before its k-th line
EarlierUpd(c, k) == {j \in 1..(k - 1) : ParseLine(sent[c][j]).op = "UPD"}

\* the acknowledged ones among them that are on edge e
EarlierAck(c, k, e) ==
    {j \in EarlierUpd(c, k) : ParseLine(sent[c][j]).a = e /\ out[c][j] = Ack}

SeesEarlierUpd(t) ==
    /\ \A j \in EarlierUpd(t[1], t[2]) : <<t[1], j>> \in applied
    /\ \A e \in EdgeIds :
          g.edges[e].observation_count >= Cardinality(EarlierAck(t[1], t[2], e))
    /\ \A e \in EdgeIds :
          EarlierAck(t[1], t[2], e) # {} =>
              g.edges[e].current_travel_time # ServerGraph.edges[e].current_travel_time

C5_SeesOwnUpdates ==
    /\ \A w \in RWorkers : InRoute(w) => SeesEarlierUpd(rworker[w].t)
    /\ \A w \in TWorkers : InUpdate(w) => SeesEarlierUpd(tworker[w].t)

C5_Witness ==
    \E w \in RWorkers :
        /\ rworker[w].pc = "unlock"
        /\ EarlierAck(rworker[w].t[1], rworker[w].t[2], 2) # {}
        /\ rworker[w].resp.kind = "ROUTE2"
        /\ rworker[w].resp.edges = <<0, 1>>

(***************************************************************************)
(* C6: for every edge and every sequence of accepted observations, all     *)
(* > 0, current_travel_time is the EMA recurrence applied in order from    *)
(* the constructed value, with alpha = 1 on the first observation and 0.2  *)
(* on the later ones (speeds clamped up to 1e-6).                          *)
(***************************************************************************)
C6_EmaRecurrence ==
    \A e \in EdgeIds :
        AllPositive(obs[e]) =>
            g.edges[e].current_travel_time =
                EmaFold(DDiv(g.edges[e].base_length, g.edges[e].base_speed_limit),
                        g.edges[e].base_length, obs[e], 1)

C6_Witness ==
    \E e \in EdgeIds :
        /\ Len(obs[e]) >= 3
        /\ AllPositive(obs[e])
        /\ DLt(obs[e][2], min_speed)
        /\ obs[e][3] = DInt(4)

(***************************************************************************)
(* C7: on non-negative weights, the cost find_route_a_star_path reports is *)
(* the shortest-path cost on the same weights, and it reports no path      *)
(* exactly when there is none.                                             *)
(***************************************************************************)
C7_AStarMatchesDijkstra ==
    (ValidReq /\ WeightsNonNegative) =>
        LET d == ShortestFrom(last.src)[last.dst] IN
        /\ last.r.rc \in {0, 1}
        /\ (last.r.rc = 1) <=> (d = DBL_MAX)
        /\ (last.r.rc = 0) => (last.r.cost = d)

(***************************************************************************)
(* C8: whenever a route is found, the reported cost is the sum of the      *)
(* current weights of the edges of the returned edge path, in path order   *)
(* (stated on the graph states whose weights are all numbers >= 0).        *)
(***************************************************************************)
C8_CostIsPathSum ==
    (ValidReq /\ WeightsNonNegative /\ last.r.rc = 0) =>
        last.r.cost = PathSumFrom(last.r.edges, 1, DInt(0))

(***************************************************************************)
(* C9: whenever REQ s t succeeds, the node path starts at s, ends at t and *)
(* repeats no node, it has one more node than the edge path has edges, and *)
(* the i-th edge id is an existing edge from the i-th to the (i+1)-th node.*)
(***************************************************************************)
WellFormedPath(s, t, nodes, edges) ==
    /\ Len(nodes) >= 1
    /\ nodes[1] = s
    /\ nodes[Len(nodes)] = t
    /\ \A i, j \in 1..Len(nodes) : i # j => nodes[i] # nodes[j]
    /\ Len(nodes) = Len(edges) + 1
    /\ \A i \in 1..Len(edges) :
          /\ edges[i] \in EdgeIds
          /\ g.edges[edges[i]].from_node = nodes[i]
          /\ g.edges[edges[i]].to_node = nodes[i + 1]

C10_NoRouteIffUnreachable ==
    ValidReq =>
        /\ (last.resp = Err("NO_ROUTE")) <=> ~Reachable(last.src, last.dst)
        /\ Reachable(last.src, last.dst) => last.resp.kind = "ROUTE2"

(***************************************************************************)
(* C11: for every valid node s, REQ s s yields cost 0, the node path s     *)
(* alone and an empty edge path, whatever edges leave s (self-loops        *)
(* included) and whatever the current weights are.                         *)
(***************************************************************************)
C11_SameNode ==
    (ValidReq /\ last.src = last.dst) =>
        /\ last.r = RouteResult(0, DInt(0), <<>>, <<last.src>>)
        /\ last.resp = Route2(DInt(0), <<last.src>>, <<>>)
        /\ last.resp.cost = <<0, 0>>

\* REQ s s where s has a self-loop and another edge out, after an update
\* that was accepted on the self-loop
C11_Witness ==
    /\ ValidReq
    /\ last.src = last.dst
    /\ \E e, f \in EdgeIds :
          /\ g.edges[e].from_node = last.src
          /\ g.edges[e].to_node = last.src
          /\ Len(obs[e]) > 0
          /\ g.edges[f].from_node = last.src
          /\ g.edges[f].to_node # last.src

(***************************************************************************)
(* C12: a command with invalid arguments is rejected with its reason and   *)
(* changes nothing: REQ with a node id outside [0, N) gets ERR BAD_NODES,  *)
(* UPD with an edge id outside [0, M) gets ERR BAD_EDGE, UPD with a valid  *)
(* edge id and a speed <= 0 gets ERR BAD_SPEED, and every field of every   *)
(* edge is the same after the command as before.                           *)
(***************************************************************************)
\* the number x is <= 0
NotPositive(x) == x # NaN /\ x[2] > 0 /\ x[1] <= 0

C12_Step ==
    (last = NoCall /\ last' # NoCall) =>
        /\ (last'.op = "REQ" /\ (last'.src \notin NodeIds \/ last'.dst \notin NodeIds))
              => (last'.resp = Err("BAD_NODES") /\ g' = g)
        /\ (last'.op = "UPD" /\ last'.edge_id \notin EdgeIds)
              => (last'.resp = Err("BAD_EDGE") /\ g' = g)
        /\ (last'.op = "UPD" /\ last'.edge_id \in EdgeIds /\ NotPositive(last'.speed))
              => (last'.resp = Err("BAD_SPEED") /\ g' = g)

C12_RejectsUnchanged == [][C12_Step]_vars

\* a speed <= 0 rejected on an edge that earlier updates have changed
C12_Witness ==
    /\ last # NoCall
    /\ last.op = "UPD"
    /\ last.resp = Err("BAD_SPEED")
    /\ last.edge_id \in EdgeIds
    /\ Len(obs[last.edge_id]) = 2
    /\ g.edges[last.edge_id].observation_count = 2

(***************************************************************************)
(* C13: after any ERR reply the connection stays open: the handler is back *)
(* at reading, the next command on the connection is answered as its line  *)
(* requires, and the handler leaves its loop only when reading (end of     *)
(* stream or receive error).                                               *)
(***************************************************************************)
C13_State ==
    \A c \in Clients : \A i \in 2..Len(out[c]) :
        out[c][i - 1].kind = "ERR" => AnswerTo(sent[c][i], out[c][i])

C13_Step ==
    \A c \in Clients :
        /\ (out'[c] # out[c] /\ out'[c][Len(out'[c])].kind = "ERR") =>
              /\ client'[c].pc = "recv"
              /\ {t \in DOMAIN tasks' : t[1] = c} = {}
        /\ (client'[c].pc = "closed" /\ client[c].pc # "closed") =>
              /\ client[c].pc = "recv"
              /\ sent' = sent
              /\ out' = out

C13_StaysOpenAfterErr == [] C13_State /\ [][C13_Step]_vars

\* a command answered after an ERR reply that a worker produced, beside a
\* connection that is reading again after an ERR reply of its handler
C13_Witness ==
    \E c, d \in Clients :
        /\ c # d
        /\ Len(out[c]) = 2
        /\ out[c][1] = Err("BAD_SPEED")
        /\ out[c][2].kind = "ROUTE2"
        /\ client[c].pc = "recv"
        /\ out[d] = <<Err("UNKNOWN_CMD")>>
        /\ client[d].pc = "recv"

(***************************************************************************)
(* C14: an empty line is answered ERR EMPTY and a line that is neither a   *)
(* REQ with two integers nor a UPD with an integer and a number is         *)
(* answered ERR UNKNOWN_CMD, by the handler itself: no task is pushed and  *)
(* the graph is neither read nor written.                                  *)
(***************************************************************************)
\* REQ with two integers
IsReqLine(line) ==
    /\ Len(line) = 3
    /\ line[1] = Word("REQ")
    /\ line[2].k = "int"
    /\ line[3].k = "int"

\* UPD with an integer and a number
IsUpdLine(line) ==
    /\ Len(line) = 3
    /\ line[1] = Word("UPD")
    /\ line[2].k = "int"
    /\ line[3].k \in {"int", "num"}

\* the handler of c answers by itself: nothing but its reply happens
AnswersItself(c, reply) ==
    /\ out'[c] = Append(out[c], reply)
    /\ client'[c].pc = "recv"
    /\ UNCHANGED <<g, tasks, routing_q, traffic_q, graph_lock, rworker, tworker>>

\* the step in which the handler of c reads the line
ReadsLine(c, line) == sent'[c] = Append(sent[c], line)

C14_Step ==
    \A c \in Clients : \A line \in ClientLines :
        ReadsLine(c, line) =>
            /\ line = <<>> => AnswersItself(c, Err("EMPTY"))
            /\ (line # <<>> /\ ~IsReqLine(line) /\ ~IsUpdLine(line)) =>
                  AnswersItself(c, Err("UNKNOWN_CMD"))

C14_BadLinesAnsweredByHandler == [][C14_Step]_vars

(***************************************************************************)
(* C15: on routing_q and on traffic_q tasks are popped in the order in     *)
(* which they were pushed, every pushed task is popped exactly once by     *)
(* exactly one worker, and no task is lost or duplicated.                  *)
(***************************************************************************)
\* the places that hold the task t: queue slots and workers
Places(t) ==
    Cardinality({i \in 1..Len(routing_q.items) : routing_q.items[i] = t})
    + Cardinality({i \in 1..Len(traffic_q.items) : traffic_q.items[i] = t})
    + Cardinality({w \in RWorkers : rworker[w].t = t})
    + Cardinality({w \in TWorkers : tworker[w].t = t})

\* t was pushed and its worker has not completed it yet
InFlight(t) ==
    /\ client[t[1]].t = t
    /\ client[t[1]].pc \in {"wait", "cvwait"}
    /\ ~tasks[t].done

\* a pushed task is in one place until it is completed, and nothing else
\* is in a queue or with a worker
NoLossNoDuplicate ==
    /\ \A t \in DOMAIN tasks : Places(t) = IF InFlight(t) THEN 1 ELSE 0
    /\ \A i \in 1..Len(routing_q.items) : routing_q.items[i] \in DOMAIN tasks
    /\ \A i \in 1..Len(traffic_q.items) : traffic_q.items[i] \in DOMAIN tasks
    /\ \A w \in RWorkers : rworker[w].t \in DOMAIN tasks \cup {NoTask}
    /\ \A w \in TWorkers : tworker[w].t \in DOMAIN tasks \cup {NoTask}

\* a queue changes by a push at its tail or by a pop of its head, which
\* exactly one idle worker of its pool receives; a worker gets a task in no
\* other way
FifoStep(items, items2, wk, wk2, ids) ==
    IF items2 = items
    THEN \A w \in ids : wk2[w].t \in {wk[w].t, NoTask}
    ELSE \/ /\ \E c \in Clients :
                  /\ client[c].pc = "push"
                  /\ client'[c].pc = "wait"
                  /\ items2 = Append(items, client[c].t)
             /\ \A w \in ids : wk2[w].t = wk[w].t
         \/ /\ items # <<>>
             /\ items2 = Tail(items)
             /\ \E w \in ids :
                  /\ wk[w].t = NoTask
                  /\ wk2[w].t = Head(items)
                  /\ \A v \in ids \ {w} : wk2[v].t = wk[v].t

C15_Step ==
    /\ FifoStep(routing_q.items, routing_q'.items, rworker, rworker', RWorkers)
    /\ FifoStep(traffic_q.items, traffic_q'.items, tworker, tworker', TWorkers)

C15_QueueFifo == [] NoLossNoDuplicate /\ [][C15_Step]_vars

\* two tasks wait in one queue, after an earlier task went through it
C15_Witness ==
    /\ Len(traffic_q.items) = 2
    /\ traffic_q.items[1] # traffic_q.items[2]
    /\ \E c \in Clients : Len(out[c]) = 1 /\ out[c][1] = Ack

(***************************************************************************)
(* C16: when the clients submit finitely many commands then, under weak    *)
(* fairness of every thread, every submitted command eventually receives   *)
(* its reply: its task is popped, executed and completed and its handler   *)
(* is woken; there is no deadlock and no lost wake-up.                     *)
(***************************************************************************)
\* no handler sleeps on the condition of a task that is done
NoLostWakeUp ==
    \A c \in Clients : client[c].pc = "cvwait" => ~TaskDone(tasks, client[c].t)

C16_EveryCommandAnswered ==
    /\ [] NoLostWakeUp
    /\ \A c \in Clients : []<>(Len(out[c]) = Len(sent[c]))

\* a handler sleeps on its task while a traffic worker waits for the write
\* lock behind a reader, on a connection that was answered before
C16_Witness ==
    \E c \in Clients :
        /\ client[c].pc = "cvwait"
        /\ Len(out[c]) = 1
        /\ \E w \in TWorkers : tworker[w].pc = "wrlock" /\ tworker[w].t = client[c].t
        /\ graph_lock.readers # {}

(***************************************************************************)
(* C17: in every state in which no traffic worker holds the write lock,    *)
(* every edge satisfies current_travel_time == ema_travel_time (== of the  *)
(* doubles, as a reader would test it): right after construction, and      *)
(* after every update, whose two writes no routing worker can separate.    *)
(***************************************************************************)
C17_CurrentEqualsEma ==
    (Loaded /\ graph_lock.writer = NoWriter) =>
        \A e \in EdgeIds :
            DEq(g.edges[e].current_travel_time, g.edges[e].ema_travel_time)

(***************************************************************************)
(* C18: two executions of REQ s t, on the same or on different             *)
(* connections, with no UPD applied to the graph between them give the     *)
(* same reply line: same cost, same node path, same edge path, whichever   *)
(* routing workers run them.                                               *)
(***************************************************************************)
\* the REQ tasks whose search has run
Searched == {t \in DOMAIN seen : seen[t] >= 0}

\* the reply line of task t, once written
Replied(t) == Len(out[t[1]]) >= t[2]

SameReq(t1, t2) ==
    /\ ParseLine(sent[t1[1]][t1[2]]).a = ParseLine(sent[t2[1]][t2[2]]).a
    /\ ParseLine(sent[t1[1]][t1[2]]).b = ParseLine(sent[t2[1]][t2[2]]).b

C18_SameReqSameReply ==
    \A t1, t2 \in Searched :
        (SameReq(t1, t2) /\ seen[t1] = seen[t2] /\ Replied(t1) /\ Replied(t2))
            => out[t1[1]][t1[2]] = out[t2[1]][t2[2]]

\* after one accepted UPD, the same REQ answered on both connections with
\* the route that avoids the slowed edge
C18_Witness ==
    \E t1, t2 \in Searched :
        /\ t1[1] # t2[1]
        /\ SameReq(t1, t2) /\ Replied(t1) /\ Replied(t2)
        /\ seen[t1] = 1 /\ seen[t2] = 1
        /\ out[t1[1]][t1[2]].kind = "ROUTE2"
        /\ out[t1[1]][t1[2]].edges = <<0, 1>>

(***************************************************************************)
(* C19: a REQ leaves the whole graph unchanged, and an accepted UPD on     *)
(* edge e changes only ema_travel_time, current_travel_time and            *)
(* observation_count of e: every other edge, the base_length,              *)
(* base_speed_limit, from and to of every edge, the coordinates of every   *)
(* node and every adjacency list are as before the command.                *)
(***************************************************************************)
\* H is G but for the three traffic fields of edge e
OnlyTraffic(G, H, e) ==
    /\ H.num_nodes = G.num_nodes
    /\ H.num_edges = G.num_edges
    /\ H.nodes = G.nodes
    /\ DOMAIN H.edges = DOMAIN G.edges
    /\ \A f \in DOMAIN G.edges :
          IF f # e THEN H.edges[f] = G.edges[f]
          ELSE /\ H.edges[f].edge_id = G.edges[f].edge_id
               /\ H.edges[f].from_node = G.edges[f].from_node
               /\ H.edges[f].to_node = G.edges[f].to_node
               /\ H.edges[f].base_length = G.edges[f].base_length
               /\ H.edges[f].base_speed_limit = G.edges[f].base_speed_limit

C19_Step ==
    (last = NoCall /\ last' # NoCall) =>
        IF last'.op = "UPD" /\ last'.resp = Ack
        THEN OnlyTraffic(g, g', last'.edge_id) /\ g' # g
        ELSE g' = g

C19_Frame == [][C19_Step]_vars

\* an acknowledged UPD on an edge while the other edge carries the result
\* of an earlier update
C19_Witness ==
    /\ Loaded
    /\ last # NoCall /\ last.op = "UPD" /\ last.resp = Ack
    /\ \E f \in EdgeIds :
          /\ f # last.edge_id
          /\ g.edges[f].observation_count = 1
          /\ g.edges[f].current_travel_time = <<3, 4>>
    /\ g.edges[last.edge_id].observation_count = 2

(***************************************************************************)
(* C20: in every graph state reached from construction by accepted UPDs    *)
(* with positive speeds, every edge has                                    *)
(*   current_travel_time >= base_length / base_speed_limit                 *)
(*                       >= base_length / max_speed,                       *)
(* max_speed being the largest base_speed_limit: the premise of the        *)
(* heuristic's admissibility.                                              *)
(***************************************************************************)
\* the travel time of edge e at its speed limit
FreeFlow(e) == DDiv(g.edges[e].base_length, g.edges[e].base_speed_limit)

C20_WeightAtLeastFreeFlow ==
    (Loaded /\ \A e \in EdgeIds : AllPositive(obs[e])) =>
        \A e \in EdgeIds :
            /\ DLe(FreeFlow(e), g.edges[e].current_travel_time)
            /\ DLe(DDiv(g.edges[e].base_length, MaxSpeedLoop(g, 0, DInt(0))),
                   FreeFlow(e))

(***************************************************************************)
(* C21: for every graph that construction accepts and every sequence of    *)
(* UPDs, every weight get_edge_weight returns is non-negative in every     *)
(* state a routing worker can observe; an edge whose weight would be       *)
(* negative is refused at construction.                                    *)
(***************************************************************************)
\* every slot of the edge table was written by graph_add_edge
AllSlotsFilled == \A e \in EdgeIds : g.edges[e].edge_id = e

C21_NonNegativeWeights ==
    (Loaded /\ AllSlotsFilled) =>
        \A e \in EdgeIds : DLe(DInt(0), get_edge_weight(g, e))

(***************************************************************************)
(* C22: after any sequence of graph_add_edge calls the store accepts,      *)
(* every edge id in the adjacency list of a node u is in [0, M), the edge  *)
(* stored under it has from == u, and each edge id appears at most once    *)
(* over all adjacency lists.                                               *)
(***************************************************************************)
\* the places <<u, i>> of the adjacency lists
AdjPlaces == {p \in NodeIds \X (1..g.num_edges + 1) :
                 p[2] <= Len(g.nodes[p[1]].out_edges)}

AdjId(p) == g.nodes[p[1]].out_edges[p[2]]

C22_AdjacencyWellFormed ==
    /\ \A p \in AdjPlaces :
          /\ AdjId(p) \in EdgeIds
          /\ g.edges[AdjId(p)].from_node = p[1]
    /\ \A p, q \in AdjPlaces : AdjId(p) = AdjId(q) => p = q

(***************************************************************************)
(* C23: no thread holds graph_lock while it waits on a queue condition,    *)
(* pushes or pops a task, waits on or signals a task condition, or writes  *)
(* to a socket; and no thread holds more than one of graph_lock, a queue   *)
(* mutex and a task mutex at the same time.                                *)
(***************************************************************************)
\* a routing worker is inside the lock exactly over its search, a traffic
\* worker exactly over apply_update: never at queue_pop or task_complete
HoldsOnlyOverWork ==
    /\ \A w \in RWorkers :
          w \in graph_lock.readers <=> rworker[w].pc \in {"route", "unlock"}
    /\ \A w \in TWorkers :
          graph_lock.writer = w <=>
              tworker[w].pc \in {"update", "current", "count", "unlock"}

\* a step under a queue mutex, under a task mutex, or writing to a socket
QueueStep == routing_q' # routing_q \/ traffic_q' # traffic_q

TaskCvStep ==
    \/ \E t \in DOMAIN tasks \cap DOMAIN tasks' : tasks'[t].done # tasks[t].done
    \/ \E c \in Clients : client[c].pc = "wait" /\ client'[c] # client[c]

SocketStep == out' # out

\* the workers that take the step
Stepping(old, new) == {w \in DOMAIN old : new[w].pc # old[w].pc}

C23_Step ==
    /\ (QueueStep \/ TaskCvStep \/ SocketStep) =>
          /\ graph_lock' = graph_lock
          /\ Stepping(rworker, rworker') \cap graph_lock.readers = {}
          /\ graph_lock.writer \notin Stepping(tworker, tworker')
    /\ ~(QueueStep /\ TaskCvStep)

C23_NoNestedLocks == [] HoldsOnlyOverWork /\ [][C23_Step]_vars

\* a reader is inside the graph lock with its result while an UPD sits in
\* the traffic queue and the other handler sleeps on its task
C23_Witness ==
    /\ \E w \in RWorkers :
          rworker[w].pc = "unlock" /\ w \in graph_lock.readers
    /\ Len(traffic_q.items) = 1
    /\ \E c, d \in Clients :
          c # d /\ client[c].pc = "cvwait" /\ client[d].pc = "cvwait"

(***************************************************************************)
(* C24: a handler destroys a task only after a worker has set its done     *)
(* flag and released the task mutex; after task_complete returns the       *)
(* worker never reads or writes that task again; every created task is     *)
(* destroyed exactly once, and no worker ever pops or touches a task that  *)
(* has been destroyed.                                                     *)
(***************************************************************************)
\* the tasks some worker has a pointer to, or that wait in a queue
Borrowed ==
    {rworker[w].t : w \in RWorkers} \cup {tworker[w].t : w \in TWorkers}
        \cup {routing_q.items[i] : i \in 1..Len(routing_q.items)}
        \cup {traffic_q.items[i] : i \in 1..Len(traffic_q.items)}

TaskOwnership ==
    /\ \A t \in Borrowed \ {NoTask} : t \in DOMAIN tasks /\ ~tasks[t].done
    /\ \A c \in Clients :
          IF client[c].pc \in {"recv", "closed"}
          THEN client[c].t = NoTask /\ LiveTasks(c) = {}
          ELSE client[c].t \in DOMAIN tasks /\ client[c].t[1] = c

C24_Step ==
    /\ \A t \in DOMAIN tasks \ DOMAIN tasks' :
          /\ tasks[t].done
          /\ t \notin Borrowed
          /\ client[t[1]].pc = "send" /\ client[t[1]].t = t
    /\ \A t \in DOMAIN tasks' \ DOMAIN tasks :
          t[2] = Len(sent[t[1]]) + 1 /\ Len(sent'[t[1]]) = t[2]
    /\ \A t \in DOMAIN tasks \cap DOMAIN tasks' :
          tasks[t].done => tasks'[t] = tasks[t]

C24_TaskLifetime == [] TaskOwnership /\ [][C24_Step]_vars

\* one connection has had its UPD acknowledged and its task destroyed,
\* the other's task is done and its handler woken but not yet past the wait
C24_Witness ==
    \E c, d \in Clients :
        /\ client[c].pc = "recv" /\ out[c] = <<Ack>> /\ LiveTasks(c) = {}
        /\ client[d].pc = "wait" /\ tasks[client[d].t].done
        /\ client[d].t \notin Borrowed

(***************************************************************************)
(* C25: two accepted UPDs on different edges give the same final graph in  *)
(* either order; two accepted UPDs on the same edge give the graph         *)
(* obtained by applying them in the order in which the traffic workers     *)
(* acquired the write lock.                                                *)
(***************************************************************************)
\* G after the updates s[i..] of edge e, one apply_update after the other
RECURSIVE ApplySeq(_, _, _, _)
ApplySeq(G, e, s, i) ==
    IF i > Len(s) THEN G
    ELSE ApplySeq(apply_update(G, e, s[i]).g, e, s, i + 1)

\* G after the recorded updates of the edges e, e + 1, ...
RECURSIVE ApplyEdges(_, _)
ApplyEdges(G, e) ==
    IF e >= G.num_edges THEN G
    ELSE ApplyEdges(ApplySeq(G, e, obs[e], 1), e + 1)

\* the speeds of the UPD lines
UpdSpeeds == {ParseLine(line).x : line \in UpdLines}

UpdatesCommute ==
    \A e1, e2 \in EdgeIds : \A s1, s2 \in UpdSpeeds :
        e1 # e2 =>
            apply_update(apply_update(g, e1, s1).g, e2, s2).g
                = apply_update(apply_update(g, e2, s2).g, e1, s1).g

\* no task is alive and every worker sleeps in queue_pop: every graph the
\* updates produce is the graph of such a state
AllIdle ==
    /\ DOMAIN tasks = {}
    /\ \A w \in RWorkers : rworker[w].pc = "qwait"
    /\ \A w \in TWorkers : tworker[w].pc = "qwait"

\* with no writer inside, the graph is the loaded one after each edge's
\* updates in their recorded order
AppliedInOrder ==
    /\ graph_lock.writer = NoWriter => g = ApplyEdges(ServerGraph, 0)
    /\ AllIdle => UpdatesCommute

\* the record of an edge grows by the update of the worker that holds the
\* write lock, and a worker acquires the lock on a graph nobody is writing
C25_Step ==
    /\ \A e \in EdgeIds :
          obs'[e] # obs[e] =>
              \E w \in TWorkers :
                  /\ graph_lock.writer = w /\ graph_lock'.writer = w
                  /\ tasks[tworker[w].t].edge_id = e
                  /\ obs'[e] = Append(obs[e], tasks[tworker[w].t].speed)
    /\ (graph_lock.writer = NoWriter /\ graph_lock'.writer # NoWriter) =>
          \A w \in TWorkers : tworker[w].pc \notin {"update", "current", "count"}

C25_UpdateOrder == [] AppliedInOrder /\ [][C25_Step]_vars

\* edge 2 updated with speed 4 and then 0.5 (the other order would leave
\* 13.2), edge 0 updated in between or around, every thread idle again
C25_Witness ==
    /\ AllIdle
    /\ obs[2] = <<DInt(4), <<1, 2>>>>
    /\ obs[0] = <<DInt(4)>>
    /\ g.edges[2].current_travel_time = <<24, 5>>
    /\ g.edges[0].current_travel_time = <<3, 2>>

(***************************************************************************)
(* C26: writer starvation under sustained read load.                       *)
(***************************************************************************)
\* traffic worker w has popped a UPD and waits in pthread_rwlock_wrlock
\* while a search is inside the lock
Starved(w) == tworker[w].pc = "wrlock" /\ graph_lock.readers # {}

\* the UPD that w has popped has had no reply
Unanswered(w) ==
    /\ ~TaskDone(tasks, tworker[w].t)
    /\ client[tworker[w].t[1]].pc \in {"wait", "cvwait"}
    /\ out[tworker[w].t[1]] = <<>>

\* a starved worker stays starved over every step, the lock admitting the
\* next search beside the one inside and never the writer
C26_Step == \A w \in TWorkers : Starved(w) => Starved(w)'

\* C26: with the lock admitting a reader whenever no writer is inside, in
\* every fair run in which the searches overlap a traffic worker that has
\* popped a UPD while a search is inside never acquires the write lock and
\* its UPD is never answered, while REQ lines are answered again and again
\* and two searches are inside together again and again; such runs exist,
\* so writes are not guaranteed to make progress under sustained read load.
C26_WriterStarves ==
    /\ [] (\A w \in TWorkers : Starved(w) => Unanswered(w))
    /\ [][C26_Step]_vars
    /\ []<>(\E c \in Queriers : client[c].pc = "send")
    /\ []<>(Cardinality(graph_lock.readers) > 1)

\* a traffic worker waits with its UPD, a search that was admitted after
\* the worker popped is inside together with another, and the connection
\* of the first of them has been answered before
C26_Witness ==
    \E w \in TWorkers :
        /\ Starved(w)
        /\ Unanswered(w)
        /\ graph_lock.readers = RWorkers
        /\ \E r \in RWorkers : rworker[r].pc = "unlock"

(***************************************************************************)
(* C27: observation_count counts the acknowledged updates.                 *)
(***************************************************************************)
\* the UPD lines on edge e that were answered ACK
AcksSent(e) ==
    {ck \in (DOMAIN sent) \X (1..MaxLines) :
        /\ ck[2] <= Len(out[ck[1]])
        /\ ParseLine(sent[ck[1]][ck[2]]).op = "UPD"
        /\ ParseLine(sent[ck[1]][ck[2]]).a = e
        /\ out[ck[1]][ck[2]] = Ack}

\* the updates of edge e that are counted and whose ACK is on its way
AcksPending(e) ==
    {t \in DOMAIN tasks :
        /\ tasks[t].type = TASK_UPD
        /\ tasks[t].edge_id = e
        /\ \/ tasks[t].done /\ tasks[t].response = Ack
           \/ \E w \in TWorkers : /\ tworker[w].t = t
                                  /\ tworker[w].pc \in {"unlock", "complete"}
                                  /\ tworker[w].resp = Ack}

CountsAcks ==
    \A e \in EdgeIds :
        /\ g.edges[e].observation_count
              = Cardinality(AcksSent(e)) + Cardinality(AcksPending(e))
        /\ AllIdle => g.edges[e].observation_count = Cardinality(AcksSent(e))

\* the count of an edge changes in one kind of step: the traffic worker
\* that is about to answer ACK for an update of that edge adds 1
C27_Step ==
    \A e \in EdgeIds :
        \/ g'.edges[e].observation_count = g.edges[e].observation_count
        \/ /\ g'.edges[e].observation_count = g.edges[e].observation_count + 1
           /\ \E w \in TWorkers :
                 /\ tworker[w].pc = "count"
                 /\ TaskOf(tasks, tworker[w].t).edge_id = e
                 /\ tworker'[w].resp = Ack

\* C27: observation_count(e) never decreases; it grows by exactly 1 for
\* each UPD on e answered ACK and not at all with a REQ or a rejected UPD,
\* so with every worker idle it is the number of ACKs sent for e.
C27_CountsAcks == [] CountsAcks /\ [][C27_Step]_vars

\* every thread idle after an acknowledged update of edge 2, a rejected
\* update of edge 0 and an answered REQ
C27_Witness ==
    /\ AllIdle
    /\ g.edges[2].observation_count = 1
    /\ g.edges[0].observation_count = 0
    /\ \E c \in Clients, k \in 1..MaxLines :
          /\ k <= Len(out[c])
          /\ ParseLine(sent[c][k]).op = "UPD"
          /\ ParseLine(sent[c][k]).a = 0
          /\ out[c][k].kind = "ERR"
    /\ \E c \in Clients, k \in 1..MaxLines :
          /\ k <= Len(out[c])
          /\ ParseLine(sent[c][k]).op = "REQ"
          /\ out[c][k].kind = "ROUTE2"

(***************************************************************************)
(* C28: repeating UPD e s.                                                 *)
(***************************************************************************)
\* a < b for travel times of any size: whole parts first, then fractions
Less(a, b) ==
    IF IsNaN(a) \/ IsNaN(b) THEN FALSE
    ELSE LET qa == a[1] \div a[2]
             qb == b[1] \div b[2]
         IN  IF qa # qb THEN qa < qb
             ELSE (a[1] % a[2]) * b[2] < (b[1] % b[2]) * a[2]

AtMost(a, b) == ~IsNaN(a) /\ ~IsNaN(b) /\ (a = b \/ Less(a, b))

\* |a - b| as the doubles give it
Dist(a, b) == IF Less(a, b) THEN DSub(b, a) ELSE DSub(a, b)

\* the step is an acknowledged UPD e s with s > 0
AckedUpd(e, s) ==
    /\ last = NoCall
    /\ last' # NoCall
    /\ last'.op = "UPD"
    /\ last'.edge_id = e
    /\ last'.speed = s
    /\ last'.resp = Ack
    /\ IsPositive(s)

\* what the measurements of UPD e s are: base_length / max(s, 1e-6)
Target(e, s) == DDiv(g.edges[e].base_length, ClampSpeed(s))

\* C28 as stated: from any reachable state, each repetition of UPD e s
\* (s > 0) multiplies the distance of ema_travel_time to base_length / s by
\* 1 - alpha = 0.8 (the case k = 1 of the ratio (1 - alpha)^k, from which
\* the others follow step by step).
C28_RatioFromAnyState ==
    [][\A e \in EdgeIds, s \in TrafficSpeeds :
          AckedUpd(e, s) =>
             LET T == DDiv(g.edges[e].base_length, s)
             IN  /\ Dist(g'.edges[e].ema_travel_time, T)
                       = DMul(<<4, 5>>, Dist(g.edges[e].ema_travel_time, T))
                 /\ AtMost(Dist(g'.edges[e].ema_travel_time, T),
                           Dist(g.edges[e].ema_travel_time, T))]_vars

C28_Step ==
    \A e \in EdgeIds, s \in TrafficSpeeds :
        AckedUpd(e, s) =>
           LET T   == Target(e, s)
               old == g.edges[e].ema_travel_time
               new == g'.edges[e].ema_travel_time
           IN  IF g.edges[e].observation_count = 0
               THEN new = T
               ELSE /\ Dist(new, T) = DMul(<<4, 5>>, Dist(old, T))
                    /\ old # NaN =>
                          /\ AtMost(Dist(new, T), Dist(old, T))
                          /\ \/ AtMost(old, new) /\ AtMost(new, T)
                             \/ AtMost(T, new) /\ AtMost(new, old)
                    /\ old = NaN => new = NaN

\* C28 amended: the first observation of an edge puts ema_travel_time on
\* base_length / max(s, 1e-6) at once; every later repetition of UPD e s
\* moves it towards that value, between the old value and the target, the
\* distance being multiplied by 0.8 each time, hence by 0.8^k over k
\* repetitions; a NaN stays NaN.
C28_RepeatedUpdConverges == [][C28_Step]_vars

\* UPD e 4 for the second time in a row after UPD e 0.5
C28_Witness ==
    \E e \in EdgeIds :
        /\ obs[e] = <<(<<1, 2>>), DInt(4), DInt(4)>>
        /\ last # NoCall
        /\ last.op = "UPD"
        /\ last.edge_id = e
        /\ last.resp = Ack
        /\ Less(Target(e, DInt(4)), g.edges[e].ema_travel_time)

(***************************************************************************)
(* C29: from the heap as the search fills it, after any sequence of        *)
(* decreaseKey calls with a key <= the node's key and extractMin calls:    *)
(* pos[array[i].node_id] = i for every index i < size, every node id is in *)
(* at most one slot below size, and every slot's key is >= the key of its  *)
(* parent slot.                                                            *)
(***************************************************************************)
Slots == 0..(heap.size - 1)

C29_HeapWellFormed ==
    heap # NoHeap =>
       /\ \A i \in Slots : heap.pos[heap.array[i].node_id] = i
       /\ \A i, j \in Slots :
             heap.array[i].node_id = heap.array[j].node_id => i = j
       /\ \A i \in Slots \ {0} :
             DLe(heap.array[(i - 1) \div 2].dist, heap.array[i].dist)

\* two nodes are out, the nodes left are not where they were put and two
\* of them have different keys below DBL_MAX
C29_Witness ==
    /\ heap # NoHeap
    /\ Len(extracted) = 2
    /\ \E i \in Slots : heap.array[i].node_id # i
    /\ \E i, j \in Slots :
          /\ DLt(heap.array[i].dist, heap.array[j].dist)
          /\ heap.array[j].dist # DBL_MAX

(***************************************************************************)
(* C30: extractMin returns a node whose key is <= the key of every node    *)
(* still in the heap; from then on isInMinHeap is false for the node it    *)
(* returned and stays true for every node not yet extracted.               *)
(***************************************************************************)
ExtractedIds == {extracted[k].node_id : k \in 1..Len(extracted)}

MembershipByPos ==
    heap # NoHeap =>
       \A v \in 0..(heap.capacity - 1) :
          isInMinHeap(heap, v) <=> v \notin ExtractedIds

C30_Step ==
    extracted' # extracted =>
       /\ Len(extracted') = Len(extracted) + 1
       /\ extracted'[Len(extracted')] = heap.array[0]
       /\ \A i \in 0..(heap'.size - 1) :
             DLe(extracted'[Len(extracted')].dist, heap'.array[i].dist)
       /\ \A v \in 0..(heap.capacity - 1) :
             DLe(extracted'[Len(extracted')].dist, heap.array[heap.pos[v]].dist)
                \/ ~isInMinHeap(heap, v)

C30_ExtractMinIsMin == [] MembershipByPos /\ [][C30_Step]_vars

\* the third extraction has returned a key above the first one's, and the
\* nodes left have keys above it
C30_Witness ==
    /\ heap # NoHeap
    /\ Len(extracted) = 3
    /\ DLt(extracted[1].dist, extracted[3].dist)
    /\ \E i \in Slots : DLt(extracted[3].dist, heap.array[i].dist)
    /\ \E i \in Slots : heap.array[i].dist # DBL_MAX

(***************************************************************************)
(* C31: on non-negative weights and for valid (s, t), the search ends      *)
(* after at most N extractions from the heap; when t was reached, the      *)
(* parent chain from t reaches s and repeats no node, so the node path has *)
(* at most N nodes and N - 1 edges and stays inside the N-slot buffers.    *)
(***************************************************************************)
\* the search of the last REQ when its main loop has ended
SearchEnd == AStarLoop(g, last.dst, AStarInit(g, last.src, last.dst))

\* the passes of the main loop that extract a node, counted one by one
RECURSIVE Extractions(_, _, _)
Extractions(G, target_id, st) ==
    IF isEmpty(st.minHeap) THEN 0
    ELSE LET ex  == extractMin(st.minHeap)
             u   == ex.root.node_id
             st1 == [st EXCEPT !.minHeap = ex.heap]
         IN  IF ex.root.dist = DBL_MAX \/ u = target_id THEN 1
             ELSE 1 + Extractions(G, target_id,
                         RelaxLoop(G, target_id, u, G.nodes[u].out_edges, st1))

\* the parent chain from the target, <<-2>> when it leaves the buffer
Chain == ParentWalk(SearchEnd.parent, last.dst, <<>>, g.num_nodes)

C31_TerminatesInBounds ==
    (ValidReq /\ WeightsNonNegative) =>
       LET N == g.num_nodes
           n == Extractions(g, last.dst, AStarInit(g, last.src, last.dst))
       IN  /\ n <= N
           /\ n = N - SearchEnd.minHeap.size
           /\ SearchEnd.found <=> last.r.rc # 1
           /\ SearchEnd.found =>
                 /\ Chain # <<-2>>
                 /\ Len(Chain) <= N
                 /\ Chain[1] = last.dst
                 /\ Chain[Len(Chain)] = last.src
                 /\ \A i, j \in 1..Len(Chain) : i # j => Chain[i] # Chain[j]
                 /\ last.r.rc \notin {-2, 16, 17}
                 /\ last.r.rc = 0 =>
                       /\ last.r.nodes = Reverse(Chain)
                       /\ Len(last.r.nodes) <= N
                       /\ Len(last.r.edges) <= N - 1

\* a route through every node, found with the last extraction the heap
\* had to give, on a graph that an update has changed
C31_Witness ==
    /\ ValidReq
    /\ WeightsNonNegative
    /\ Updates > 0
    /\ last.r.rc = 0
    /\ Len(last.r.nodes) = g.num_nodes
    /\ Len(last.r.edges) = g.num_nodes - 1
    /\ Extractions(g, last.dst, AStarInit(g, last.src, last.dst)) = g.num_nodes

=============================================================================
